---- MODULE Spec2Model ----
(***************************************************************************)
(* The symbol-matching engine of AutoViz (SCRIPTS/match.py with            *)
(* SCRIPTS/ai_prefilter.py): candidate indexing, the embedding prefilter,  *)
(* gated verification, the second-chance pass, ranking and row output.     *)
(*                                                                         *)
(* Numbers.  Python floats are kept in fixed point: the measured           *)
(* distances (hu distance, chamfer distance, aspect penalty) are integers  *)
(* counting 1/10000, a composite score is an integer counting 1/100000, so *)
(* that 2.20 * chamf is 22 * chamf and 0.25 * inl is 25000 * inl.          *)
(* Indices are 1-based: candidate j of the model is cand_idx[j-1].         *)
(***************************************************************************)
EXTENDS Integers, Sequences, FiniteSets, TLC

(* ---------------- bounds of the model ---------------- *)
MaxCands == 3
MaxQueries == 2
ImgSide == 3
MaxInk == 3
MaxBuilds == 2
MaxAnnCands == 11
MaxRuns == 2
MaxRunCands == 2
MaxSummaries == 4
HashSide == 2

(* ---------------- settings of match.py (lines 15-27) ---------------- *)
TOPK == 5
PHASH_PREFILTER_MAX == 26
AI_TOP_M == 80
AI_USE_MIRROR == FALSE
SUBFOLDERS == <<"AUTO_CLUSTERS", "INSTANCES">>

(* The block is headed "EDIT THESE": a run starts with the shipped values  *)
(* or with smaller ones, which make the list cut (TOPK) and the shortlist  *)
(* cut (AI_TOP_M) happen on a candidate set of MaxCands images.            *)
TopKSettings == {2, TOPK}
TopMSettings == {0, 1, AI_TOP_M}

RECURSIVE SumSeq(_)
SumSeq(s) == IF s = <<>> THEN 0 ELSE Head(s) + SumSeq(Tail(s))

Min(a, b) == IF a <= b THEN a ELSE b
Max(a, b) == IF a >= b THEN a ELSE b

(* list.sort(key=...) is stable: element i goes after every element with a *)
(* smaller key and after every earlier element with an equal key.          *)
StableSort(seq, key) ==
  LET n == Len(seq)
      pos(i) == 1 + Cardinality({j \in 1..n :
                        key[j] < key[i] \/ (key[j] = key[i] /\ j < i)})
  IN [p \in 1..n |-> seq[CHOOSE i \in 1..n : pos(i) = p]]

(* an np.ndarray or a list of n entries, every entry computed once *)
Array(f, n) == SubSeq(f, 1, n)

(* seq[:k] *)
Prefix(seq, k) == SubSeq(seq, 1, Min(k, Len(seq)))

(* ---------------- preprocessing ---------------- *)
(* A file on disk: whether cv2.imread can read it, and the (h, w) of the   *)
(* crop that load_and_clean cuts out of it.                                *)
CropOf(path) == IF path % 2 = 1 THEN <<40, 25>> ELSE <<70, 70>>

(* mutant: the crop is returned as cut, not pasted on a square canvas *)
load_and_clean_uncentred(readable, crop) ==
  IF ~readable THEN <<>>
  ELSE << [h |-> crop[1], w |-> crop[2]] >>

(* load_and_clean: None (here <<>>) for an unreadable file, else the       *)
(* canvas; side = max(int(round(max(crop.shape)/0.82)), 64), and           *)
(* remove_long_lines, remove_border_touching, skeletonize keep the shape.  *)
load_and_clean(readable, crop) ==
  IF ~readable THEN <<>>
  ELSE LET m    == Max(crop[1], crop[2])
           side == Max((200 * m + 82) \div 164, 64)
       IN  << [h |-> side, w |-> side] >>

(* ---------------- descriptors and scoring ---------------- *)
(* aspect_ratio: w / float(h), kept as the fraction <<w, h>> *)
aspect_ratio(img) == <<img.w, img.h>>

(* ln(a/b) for a >= b > 0 in 1/10000, by 2(z + z^3/3), z = (a-b)/(a+b) *)
LnFrac(a, b) ==
  LET z  == (10000 * (a - b)) \div (a + b)
      zh == z \div 10
  IN  2 * (z + (zh * zh * zh) \div 300000)

(* ar_penalty: abs(log((ar_q+1e-6)/(ar_c+1e-6))) *)
ar_penalty(ar_q, ar_c) ==
  LET a == ar_q[1] * ar_c[2]
      b == ar_q[2] * ar_c[1]
  IN  IF a >= b THEN LnFrac(a, b) ELSE LnFrac(b, a)

(* mutant: the fit is made on any number of matches *)
homography_inliers_always_fits(good, ransac) == ransac

(* homography_inliers: no fit on fewer than 8 matches; ransac is what      *)
(* cv2.findHomography's mask sums to when the fit is made.                 *)
homography_inliers(good, ransac) == IF good < 8 THEN 0 ELSE ransac

(* mutant: the chamfer term without its cap *)
composite_score_uncapped(ph_d, good, inl, hu_d, chamf, ar_pen) ==
  LET s1 == 100000 * ph_d
      s2 == s1 + 22 * chamf
      s3 == s2 + 60 * Min(ar_pen, 8000)
      s4 == s3 + 6 * Min(hu_d, 50000)
      s5 == s4 - 10000 * Min(good, 40)
      s6 == s5 - 25000 * Min(inl, 40)
  IN  s6

(* mutant: the inlier reward added instead of subtracted *)
composite_score_inl_added(ph_d, good, inl, hu_d, chamf, ar_pen) ==
  LET s1 == 100000 * ph_d
      s2 == s1 + 22 * Min(chamf, 80000)
      s3 == s2 + 60 * Min(ar_pen, 8000)
      s4 == s3 + 6 * Min(hu_d, 50000)
      s5 == s4 - 10000 * Min(good, 40)
      s6 == s5 + 25000 * Min(inl, 40)
  IN  s6

composite_score(ph_d, good, inl, hu_d, chamf, ar_pen) ==
  LET s1 == 100000 * ph_d
      s2 == s1 + 22 * Min(chamf, 80000)
      s3 == s2 + 60 * Min(ar_pen, 8000)
      s4 == s3 + 6 * Min(hu_d, 50000)
      s5 == s4 - 10000 * Min(good, 40)
      s6 == s5 - 25000 * Min(inl, 40)
  IN  s6

(* mutant: the second clause with the first clause's pHash bound *)
accept_policy_tight(ph_d, good, inl, hu_d) ==
  IF ph_d <= 12 /\ (good >= 12 \/ inl >= 10) THEN TRUE
  ELSE IF ph_d <= 12 /\ inl >= 14 THEN TRUE
  ELSE IF hu_d <= 5500 /\ good >= 16 THEN TRUE
  ELSE FALSE

accept_policy(ph_d, good, inl, hu_d) ==
  IF ph_d <= 12 /\ (good >= 12 \/ inl >= 10) THEN TRUE
  ELSE IF ph_d <= 18 /\ inl >= 14 THEN TRUE
  ELSE IF hu_d <= 5500 /\ good >= 16 THEN TRUE
  ELSE FALSE

(* round(x, 4) of a score: from 1/100000 to 1/10000, halves to even *)
round4(x) ==
  LET q == x \div 10
      r == x % 10
  IN  IF r < 5 THEN q
      ELSE IF r > 5 THEN q + 1
      ELSE IF q % 2 = 0 THEN q ELSE q + 1

(* What OpenCV measures on one (query, candidate) pair of images: the      *)
(* result of phash_best_rotflip, the number of ratio-test matches, the     *)
(* RANSAC inlier count, the Hu distance, the chamfer distance to the       *)
(* candidate in the pose found (chamf) and as stored (chamf_raw).          *)
Profiles ==
  { [ph_d |-> 4,  rot_deg |-> 90,  flipped |-> FALSE, good |-> 45, ransac |-> 41,
     hud |-> 1000,  chamf |-> 5000,   chamf_raw |-> 31234],
    [ph_d |-> 12, rot_deg |-> 0,   flipped |-> FALSE, good |-> 12, ransac |-> 0,
     hud |-> 6000,  chamf |-> 90000,  chamf_raw |-> 90000],
    [ph_d |-> 20, rot_deg |-> 180, flipped |-> TRUE,  good |-> 3,  ransac |-> 3,
     hud |-> 60000, chamf |-> 90000,  chamf_raw |-> 95000],
    [ph_d |-> 27, rot_deg |-> 270, flipped |-> FALSE, good |-> 16, ransac |-> 9,
     hud |-> 5000,  chamf |-> 12345,  chamf_raw |-> 23456],
    [ph_d |-> 26, rot_deg |-> 0,   flipped |-> FALSE, good |-> 0,  ransac |-> 0,
     hud |-> 4000,  chamf |-> 10000,  chamf_raw |-> 10000] }

(* Cosine similarities the embedder gives, as max per owner *)
SimVals == {1, 2}

(* ---------------- ai_prefilter.py ---------------- *)
(* np.load(cache, allow_pickle=False) and data["paths"] (lines 128-129):   *)
(* a paths array saved with dtype=object is pickled, and reading it raises *)
(* ValueError; a file that is not a whole zip archive makes np.load raise  *)
(* BadZipFile                                                              *)
LoadRaises(file) == file.pickled \/ file.corrupt

(* build_deep_index, fresh build: K rows per candidate, owner = its index *)
build_deep_index(cands, use_mirror) ==
  LET k == IF use_mirror THEN 8 ELSE 4
  IN  [owner     |-> [r \in 1..(k * Len(cands)) |-> ((r - 1) \div k) + 1],
       paths     |-> [j \in 1..Len(cands) |-> cands[j].path],
       k_orients |-> k]

(* deep_prefilter, dense path: the owners that have rows, ranked by        *)
(* -max similarity (sorted is stable), cut to top_m.                       *)
deep_prefilter(sims, idx, top_m) ==
  LET owners == {idx.owner[r] : r \in 1..Len(idx.owner)}
      n      == Cardinality(owners)
      items  == [o \in 1..n |-> o]
      ranked == StableSort(items, [o \in 1..n |-> 0 - sims[o]])
  IN  Prefix(ranked, top_m)

(* ---------------- match.py: process_subfolder ---------------- *)
build_index(paths, bad) ==
  LET ok(p) == p \notin bad
      kept  == SelectSeq(paths, ok)
  IN  [j \in 1..Len(kept) |->
         [path |-> kept[j], img |-> load_and_clean(TRUE, CropOf(kept[j]))[1]]]

(* mutant: the gated pass without its pHash gate *)
verify_pass_no_phash_gate(q, cands, c_subset, m) ==
  LET arp(j)  == ar_penalty(aspect_ratio(q), aspect_ratio(cands[j].img))
      pass(j) == ~(arp(j) > 4500)
      kept    == SelectSeq(c_subset, pass)
      inl(j)  == homography_inliers(m[j].good, m[j].ransac)
  IN  [i \in 1..Len(kept) |->
        LET j == kept[i] IN
        [score   |-> composite_score(m[j].ph_d, m[j].good, inl(j), m[j].hud,
                                     m[j].chamf, arp(j)),
         ph_d    |-> m[j].ph_d,
         good    |-> m[j].good,
         inl     |-> inl(j),
         hud     |-> m[j].hud,
         cand    |-> j,
         rot_deg |-> m[j].rot_deg,
         flipped |-> m[j].flipped,
         arp     |-> arp(j),
         chamf   |-> m[j].chamf]]

(* lines 269-292: the gated pass over c_subset *)
verify_pass(q, cands, c_subset, m) ==
  LET arp(j)  == ar_penalty(aspect_ratio(q), aspect_ratio(cands[j].img))
      pass(j) == ~(arp(j) > 4500) /\ ~(m[j].ph_d > PHASH_PREFILTER_MAX)
      kept    == SelectSeq(c_subset, pass)
      inl(j)  == homography_inliers(m[j].good, m[j].ransac)
  IN  [i \in 1..Len(kept) |->
        LET j == kept[i] IN
        [score   |-> composite_score(m[j].ph_d, m[j].good, inl(j), m[j].hud,
                                     m[j].chamf, arp(j)),
         ph_d    |-> m[j].ph_d,
         good    |-> m[j].good,
         inl     |-> inl(j),
         hud     |-> m[j].hud,
         cand    |-> j,
         rot_deg |-> m[j].rot_deg,
         flipped |-> m[j].flipped,
         arp     |-> arp(j),
         chamf   |-> m[j].chamf]]

(* mutant: a second-chance pass that keeps the pHash gate *)
second_chance_gated(q, cands, m) ==
  LET pass(j) == ~(m[j].ph_d > PHASH_PREFILTER_MAX)
      kept    == SelectSeq([j \in 1..Len(cands) |-> j], pass)
  IN  [i \in 1..Len(kept) |->
        LET j == kept[i] IN
        [score   |-> composite_score(m[j].ph_d, 0, 0, m[j].hud, m[j].chamf_raw, 0),
         ph_d    |-> m[j].ph_d,
         good    |-> 0,
         inl     |-> 0,
         hud     |-> m[j].hud,
         cand    |-> j,
         rot_deg |-> m[j].rot_deg,
         flipped |-> m[j].flipped,
         arp     |-> 0,
         chamf   |-> 9990000]]

(* mutant: a second-chance pass that records the matches and inliers it   *)
(* could have measured                                                     *)
second_chance_measured(q, cands, m) ==
  [j \in 1..Len(cands) |->
     [score   |-> composite_score(m[j].ph_d, 0, 0, m[j].hud, m[j].chamf_raw, 0),
      ph_d    |-> m[j].ph_d,
      good    |-> m[j].good,
      inl     |-> homography_inliers(m[j].good, m[j].ransac),
      hud     |-> m[j].hud,
      cand    |-> j,
      rot_deg |-> m[j].rot_deg,
      flipped |-> m[j].flipped,
      arp     |-> 0,
      chamf   |-> 9990000]]

(* lines 294-299: the second-chance pass over cand_idx *)
second_chance(q, cands, m) ==
  [j \in 1..Len(cands) |->
     [score   |-> composite_score(m[j].ph_d, 0, 0, m[j].hud, m[j].chamf_raw, 0),
      ph_d    |-> m[j].ph_d,
      good    |-> 0,
      inl     |-> 0,
      hud     |-> m[j].hud,
      cand    |-> j,
      rot_deg |-> m[j].rot_deg,
      flipped |-> m[j].flipped,
      arp     |-> 0,
      chamf   |-> 9990000]]

(* mutant: the sort turned round (reverse=True) *)
sort_scores_desc(s) == StableSort(s, [i \in 1..Len(s) |-> 0 - s[i].score])

(* line 301: scores.sort(key=lambda x: x[0]) *)
sort_scores(s) == StableSort(s, [i \in 1..Len(s) |-> s[i].score])

(* mutant: rows only for the pairs accept_policy accepts *)
make_rows_accepted_only(q, bk) ==
  LET acc(s) == accept_policy(s.ph_d, s.good, s.inl, s.hud)
      kept   == SelectSeq(bk, acc)
  IN  [r \in 1..Len(kept) |->
         [query      |-> q,
          cand       |-> kept[r].cand,
          rank       |-> r,
          score      |-> round4(kept[r].score),
          phash_dist |-> kept[r].ph_d,
          orb_good   |-> kept[r].good,
          inliers    |-> kept[r].inl,
          hu_dist    |-> kept[r].hud,
          rot        |-> kept[r].rot_deg,
          flip       |-> kept[r].flipped,
          ar_penalty |-> kept[r].arp,
          chamfer    |-> kept[r].chamf,
          accepted   |-> TRUE]]

(* lines 326-343: the rows of one query *)
make_rows(q, bk) ==
  [r \in 1..Len(bk) |->
     [query      |-> q,
      cand       |-> bk[r].cand,
      rank       |-> r,
      score      |-> round4(bk[r].score),
      phash_dist |-> bk[r].ph_d,
      orb_good   |-> bk[r].good,
      inliers    |-> bk[r].inl,
      hu_dist    |-> bk[r].hud,
      rot        |-> bk[r].rot_deg,
      flip       |-> bk[r].flipped,
      ar_penalty |-> bk[r].arp,
      chamfer    |-> bk[r].chamf,
      accepted   |-> accept_policy(bk[r].ph_d, bk[r].good, bk[r].inl, bk[r].hud)]]

(* the run of main() *)
VARIABLES pc, si, topk, ai_top_m, nq, cand_idx, deep_idx, qi, qimg, meas,
          keep_ids, c_subset, scores, second, bestk, best, rows, csv,
          json_written
(* one evaluation of composite_score / accept_policy *)
VARIABLES sc_pc, sc_in, sc_out, sc_acc, sc_prev
(* one evaluation of phash_best_rotflip *)
VARIABLES ph_pc, ph_q, ph_c, ph_how, ph_res
(* calls of build_deep_index on one cache directory: the candidate files,  *)
(* the arguments, the directory, and the last two outcomes                 *)
VARIABLES cb_pc, cb_cands, cb_args, cb_dir, cb_out, cb_calls, cb_prev, cb_builds
(* one query put to deep_prefilter with and without the faiss index: the   *)
(* index's owner array, the similarities qemb @ E.T, top_m, the shortlists *)
VARIABLES an_pc, an_owner, an_sims, an_top_m, an_done, an_faiss, an_dense
(* runs of main() one after the other over the same folders and the same   *)
(* cache directory: the folders, the directory, the run under way, the     *)
(* runs that ended                                                         *)
VARIABLES rn_pc, rn_in, rn_dir, rn_run, rn_prev
(* JSON_MAP_HANDLE and JSON_MAP_STEM over the queries of a run, with the   *)
(* queries summarized so far                                               *)
VARIABLES jm_pc, jm_handle, jm_stem, jm_log

matchVars == <<pc, si, topk, ai_top_m, nq, cand_idx, deep_idx, qi, qimg, meas,
               keep_ids, c_subset, scores, second, bestk, best, rows, csv,
               json_written>>
scoreVars == <<sc_pc, sc_in, sc_out, sc_acc, sc_prev>>
phashVars == <<ph_pc, ph_q, ph_c, ph_how, ph_res>>
cacheVars == <<cb_pc, cb_cands, cb_args, cb_dir, cb_out, cb_calls, cb_prev, cb_builds>>
annVars == <<an_pc, an_owner, an_sims, an_top_m, an_done, an_faiss, an_dense>>
runVars == <<rn_pc, rn_in, rn_dir, rn_run, rn_prev>>
mapVars == <<jm_pc, jm_handle, jm_stem, jm_log>>
vars == <<matchVars, scoreVars, phashVars, cacheVars, annVars, runVars, mapVars>>
otherVars == <<scoreVars, phashVars, cacheVars, annVars, runVars, mapVars>>

(* the locals of one turn of the query loop *)
queryVars == <<qimg, meas, keep_ids, c_subset, scores, second, bestk, best, rows>>

NoIndex == [owner |-> <<>>, paths |-> <<>>, k_orients |-> 4]

InitMatch ==
  /\ pc = "main"
  /\ si = 1
  /\ topk \in TopKSettings
  /\ ai_top_m \in TopMSettings
  /\ nq = 0
  /\ cand_idx = <<>>
  /\ deep_idx = NoIndex
  /\ qi = 0
  /\ qimg = <<>>
  /\ meas = <<>>
  /\ keep_ids = <<>>
  /\ c_subset = <<>>
  /\ scores = <<>>
  /\ second = FALSE
  /\ bestk = <<>>
  /\ best = <<>>
  /\ rows = <<>>
  /\ csv = {}
  /\ json_written = FALSE

(* lines 233-238: a subfolder with no work images or no master images *)
SkipSubfolder ==
  /\ pc = "main" /\ si <= Len(SUBFOLDERS)
  /\ \E n \in 0..MaxQueries, nc \in 0..MaxCands :
       /\ n = 0 \/ nc = 0
       /\ si' = si + 1
  /\ UNCHANGED <<otherVars, pc, topk, ai_top_m, nq, cand_idx, deep_idx, qi, csv,
                 json_written, queryVars>>

(* lines 240-257: index the master images, build the embedding index *)
IndexSubfolder ==
  /\ pc = "main" /\ si <= Len(SUBFOLDERS)
  /\ \E n \in 1..MaxQueries, nc \in 1..MaxCands :
       \E bad \in SUBSET (1..nc) :
         /\ nq' = n
         /\ cand_idx' = build_index([p \in 1..nc |-> p], bad)
         /\ deep_idx' = build_deep_index(cand_idx', AI_USE_MIRROR)
  /\ qi' = 0
  /\ pc' = "loop"
  /\ UNCHANGED <<otherVars, si, topk, ai_top_m, csv, json_written, queryVars>>

(* lines 240-253 on a second run: the cache file an earlier run left under *)
(* this subfolder's key is there, and reading its paths raises             *)
(* (ai_prefilter.py line 129); nothing catches it                          *)
IndexRaises ==
  /\ pc = "main" /\ si <= Len(SUBFOLDERS)
  /\ \E n \in 1..MaxQueries, nc \in 1..MaxCands :
       LoadRaises([pickled |-> TRUE, corrupt |-> FALSE])
  /\ pc' = "crashed"
  /\ UNCHANGED <<otherVars, si, topk, ai_top_m, nq, cand_idx, deep_idx, qi, csv,
                 json_written, queryVars>>

(* lines 260-261: the work image cannot be read *)
SkipQuery ==
  /\ pc = "loop" /\ qi < nq
  /\ load_and_clean(FALSE, CropOf(qi + 1)) = <<>>
  /\ qi' = qi + 1
  /\ UNCHANGED <<otherVars, pc, si, topk, ai_top_m, nq, cand_idx, deep_idx, csv,
                 json_written, queryVars>>

(* lines 260-267 on an empty index: owner.max() of an empty array raises *)
PrefilterRaises ==
  /\ pc = "loop" /\ qi < nq
  /\ Len(deep_idx.owner) = 0
  /\ pc' = "crashed"
  /\ qimg' = load_and_clean(TRUE, CropOf(qi + 1))
  /\ UNCHANGED <<otherVars, si, topk, ai_top_m, nq, cand_idx, deep_idx, qi, csv,
                 json_written, meas, keep_ids, c_subset, scores, second,
                 bestk, best, rows>>

(* lines 260-267: normalize the query, shortlist the candidates *)
Prefilter ==
  /\ pc = "loop" /\ qi < nq
  /\ Len(deep_idx.owner) > 0
  /\ qimg' = load_and_clean(TRUE, CropOf(qi + 1))
  /\ \E s \in [1..Len(cand_idx) -> SimVals], m \in [1..Len(cand_idx) -> Profiles] :
       /\ meas' = m
       /\ keep_ids' = deep_prefilter(s, deep_idx, ai_top_m)
  /\ c_subset' = IF keep_ids' # <<>> THEN keep_ids'
                 ELSE [j \in 1..Len(cand_idx) |-> j]
  /\ scores' = <<>>
  /\ second' = FALSE
  /\ bestk' = <<>>
  /\ best' = <<>>
  /\ rows' = <<>>
  /\ pc' = "prefiltered"
  /\ UNCHANGED <<otherVars, si, topk, ai_top_m, nq, cand_idx, deep_idx, qi, csv,
                 json_written>>

(* mutant: the pass filters the list it walks in place, which is cand_idx  *)
(* itself when the shortlist is empty (line 267)                           *)
Verify_filters_in_place ==
  /\ pc = "prefiltered"
  /\ scores' = verify_pass(qimg[1], cand_idx, c_subset, meas)
  /\ cand_idx' = IF keep_ids = <<>>
                 THEN [i \in 1..Len(scores') |-> cand_idx[scores'[i].cand]]
                 ELSE cand_idx
  /\ pc' = "verified"
  /\ UNCHANGED <<otherVars, si, topk, ai_top_m, nq, deep_idx, qi, csv,
                 json_written, qimg, meas, keep_ids, c_subset, second,
                 bestk, best, rows>>

(* lines 269-292 *)
Verify ==
  /\ pc = "prefiltered"
  /\ scores' = verify_pass(qimg[1], cand_idx, c_subset, meas)
  /\ pc' = "verified"
  /\ UNCHANGED <<otherVars, si, topk, ai_top_m, nq, cand_idx, deep_idx, qi, csv,
                 json_written, qimg, meas, keep_ids, c_subset, second,
                 bestk, best, rows>>

(* lines 294-299 *)
SecondChance ==
  /\ pc = "verified"
  /\ scores = <<>>
  /\ scores' = second_chance(qimg[1], cand_idx, meas)
  /\ second' = TRUE
  /\ pc' = "scored"
  /\ UNCHANGED <<otherVars, si, topk, ai_top_m, nq, cand_idx, deep_idx, qi, csv,
                 json_written, qimg, meas, keep_ids, c_subset,
                 bestk, best, rows>>

(* lines 301-343: rank, cut to TOPK, emit the rows *)
RankEmit ==
  /\ \/ pc = "verified" /\ scores # <<>>
     \/ pc = "scored"
  /\ LET sorted == sort_scores(scores)
         bk     == Prefix(sorted, topk)
     IN  /\ scores' = sorted
         /\ bestk' = bk
         /\ best' = << bk[1] >>
         /\ rows' = make_rows(qi + 1, bk)
  /\ pc' = "emitted"
  /\ UNCHANGED <<otherVars, si, topk, ai_top_m, nq, cand_idx, deep_idx, qi, csv,
                 json_written, qimg, meas, keep_ids, c_subset, second>>

(* lines 345-372: the summaries, the progress line; the turn's locals end *)
Summarize ==
  /\ pc = "emitted"
  /\ qi' = qi + 1
  /\ qimg' = <<>>
  /\ meas' = <<>>
  /\ keep_ids' = <<>>
  /\ c_subset' = <<>>
  /\ scores' = <<>>
  /\ second' = FALSE
  /\ bestk' = <<>>
  /\ best' = <<>>
  /\ rows' = <<>>
  /\ pc' = "loop"
  /\ UNCHANGED <<otherVars, si, topk, ai_top_m, nq, cand_idx, deep_idx, csv, json_written>>

(* lines 374-379: the subfolder's CSV *)
FinishSubfolder ==
  /\ pc = "loop" /\ qi = nq
  /\ csv' = csv \cup {si}
  /\ si' = si + 1
  /\ pc' = "main"
  /\ UNCHANGED <<otherVars, topk, ai_top_m, nq, cand_idx, deep_idx, qi,
                 json_written, queryVars>>

(* lines 386-398: the combined CSV and the two JSON summaries *)
FinishMain ==
  /\ pc = "main" /\ si > Len(SUBFOLDERS)
  /\ json_written' = TRUE
  /\ pc' = "done"
  /\ UNCHANGED <<otherVars, si, topk, ai_top_m, nq, cand_idx, deep_idx, qi, csv,
                 queryVars>>

Next ==
  \/ SkipSubfolder
  \/ IndexSubfolder
  \/ IndexRaises
  \/ SkipQuery
  \/ PrefilterRaises
  \/ Prefilter
  \/ Verify
  \/ SecondChance
  \/ RankEmit
  \/ Summarize
  \/ FinishSubfolder
  \/ FinishMain

(* the variables of a part that a specification does not run *)
IdleMatch ==
  /\ pc = "off" /\ si = 1 /\ topk = TOPK /\ ai_top_m = AI_TOP_M /\ nq = 0
  /\ cand_idx = <<>> /\ deep_idx = NoIndex /\ qi = 0 /\ qimg = <<>>
  /\ meas = <<>> /\ keep_ids = <<>> /\ c_subset = <<>> /\ scores = <<>>
  /\ second = FALSE /\ bestk = <<>> /\ best = <<>> /\ rows = <<>>
  /\ csv = {} /\ json_written = FALSE

IdleScore ==
  /\ sc_pc = "off" /\ sc_in = <<>> /\ sc_out = 0 /\ sc_acc = FALSE /\ sc_prev = <<>>

IdlePhash ==
  /\ ph_pc = "off" /\ ph_q = <<>> /\ ph_c = <<>> /\ ph_how = 0
  /\ ph_res = <<0, 0, FALSE>>

IdleCache ==
  /\ cb_pc = "off" /\ cb_cands = <<>> /\ cb_args = <<>> /\ cb_dir = {}
  /\ cb_out = <<>> /\ cb_calls = 0 /\ cb_prev = <<>> /\ cb_builds = 0

IdleAnn ==
  /\ an_pc = "off" /\ an_owner = <<>> /\ an_sims = <<>> /\ an_top_m = 0
  /\ an_done = {} /\ an_faiss = <<>> /\ an_dense = <<>>

IdleRuns ==
  /\ rn_pc = "off" /\ rn_in = <<>> /\ rn_dir = {} /\ rn_run = <<>> /\ rn_prev = <<>>

IdleMaps ==
  /\ jm_pc = "off" /\ jm_handle = <<>> /\ jm_stem = <<>> /\ jm_log = <<>>

Init == InitMatch /\ IdleScore /\ IdlePhash /\ IdleCache /\ IdleAnn /\ IdleRuns /\ IdleMaps

Spec == Init /\ [][Next]_vars

(***************************************************************************)
(* Properties of the run of main() (specification Spec)                    *)
(***************************************************************************)
(* the scored pairs of the current query as the pass that made them left   *)
(* them, before line 301 sorts them                                         *)
Scored ==
  IF second THEN second_chance(qimg[1], cand_idx, meas)
  ELSE verify_pass(qimg[1], cand_idx, c_subset, meas)

(* what the two gates measure on candidate j for the current query *)
MeasuredArp(j) == ar_penalty(aspect_ratio(qimg[1]), aspect_ratio(cand_idx[j].img))
PassesGates(j) == MeasuredArp(j) <= 4500 /\ meas[j].ph_d <= PHASH_PREFILTER_MAX

RowCands == {rows[r].cand : r \in DOMAIN rows}

(* C1 -- Fallback guarantee: when deep_prefilter returned an empty         *)
(* shortlist for a normalized query and cand_idx is not empty, the scoring *)
(* never ends empty and the emitted result has at least one row and a best *)
(* match.                                                                  *)
C1_FallbackGuarantee ==
  (keep_ids = <<>> /\ cand_idx # <<>>) =>
     /\ pc = "prefiltered" => c_subset = [j \in 1..Len(cand_idx) |-> j]
     /\ pc = "scored" => Len(scores) >= 1
     /\ pc = "emitted" => Len(rows) >= 1 /\ Len(bestk) >= 1 /\ Len(best) = 1

C1_Witness ==
  /\ pc = "emitted" /\ keep_ids = <<>> /\ Len(cand_idx) >= 2
  /\ second /\ Len(rows) >= 1 /\ Len(best) = 1

C3_SecondChanceVerifies ==
  (pc = "scored" /\ second) =>
     /\ Len(scores) = Len(cand_idx)
     /\ \A j \in DOMAIN scores :
          LET inl == homography_inliers(meas[j].good, meas[j].ransac)
          IN  /\ scores[j].cand = j
              /\ scores[j].good = meas[j].good
              /\ scores[j].inl = inl
              /\ scores[j].arp = MeasuredArp(j)
              /\ scores[j].chamf = meas[j].chamf
              /\ scores[j].score =
                   composite_score(meas[j].ph_d, meas[j].good, inl, meas[j].hud,
                                   meas[j].chamf, MeasuredArp(j))

(* C4 -- Ranking: the rows of a query with n scored pairs are min(TOPK, n) *)
(* of them, ranked 1.. in non-decreasing score, no pair left out scores    *)
(* below an emitted one, and best is the rank-1 row, of minimal score.     *)
C4_Ranking ==
  pc = "emitted" =>
     LET sc == Array(Scored, Len(Scored))
         n == Len(sc)
         m == IF topk <= n THEN topk ELSE n
     IN  /\ n >= 1
         /\ Len(rows) = m
         /\ Cardinality(RowCands) = m
         /\ \A r \in 1..m :
              /\ rows[r].rank = r
              /\ \E i \in 1..n : /\ sc[i].cand = rows[r].cand
                                 /\ sc[i] = bestk[r]
                                 /\ rows[r].score = round4(sc[i].score)
         /\ \A r1, r2 \in 1..m :
              r1 < r2 => /\ bestk[r1].score <= bestk[r2].score
                         /\ rows[r1].score <= rows[r2].score
         /\ \A i \in 1..n :
              sc[i].cand \notin RowCands =>
                 \A r \in 1..m : bestk[r].score <= sc[i].score
         /\ best = << bestk[1] >>
         /\ best[1].cand = rows[1].cand
         /\ \A i \in 1..n : best[1].score <= sc[i].score

C4_Witness ==
  /\ pc = "emitted" /\ Len(Scored) > topk /\ Len(rows) = topk
  /\ \E i \in DOMAIN Scored :
       /\ Scored[i].cand \notin RowCands
       /\ Scored[i].score > bestk[Len(bestk)].score
  /\ Scored[1].cand # rows[1].cand

(* C5 -- Tie-breaking as claimed: rows of equal composite score are in     *)
(* candidate-id order.                                                     *)
C5_TiesByCandidateId ==
  pc = "emitted" =>
     \A r1, r2 \in DOMAIN rows :
        (r1 < r2 /\ bestk[r1].score = bestk[r2].score) =>
           rows[r1].cand < rows[r2].cand

(* C9 -- accepted does not filter or reorder: a pair that is not accepted  *)
(* is emitted unless TOPK pairs score no higher, a row that is not         *)
(* accepted keeps its place before accepted rows of higher score, and the  *)
(* number of rows does not depend on the flags.                            *)
C9_AcceptedDoesNotFilter ==
  pc = "emitted" =>
     LET sc == Array(Scored, Len(Scored))
         n == Len(sc)
         acc(s) == accept_policy(s.ph_d, s.good, s.inl, s.hud)
     IN  /\ Len(rows) = (IF topk <= n THEN topk ELSE n)
         /\ \A i \in 1..n :
              ~acc(sc[i]) =>
                 \/ sc[i].cand \in RowCands
                 \/ /\ Len(rows) = topk
                    /\ \A r \in DOMAIN rows : bestk[r].score <= sc[i].score
         /\ \A r \in DOMAIN rows : rows[r].accepted = acc(bestk[r])
         /\ \A r1, r2 \in DOMAIN rows :
              (r1 < r2 /\ ~rows[r1].accepted /\ rows[r2].accepted) =>
                 bestk[r1].score <= bestk[r2].score

C9_Witness ==
  /\ pc = "emitted" /\ Len(rows) >= 2
  /\ ~rows[1].accepted /\ rows[2].accepted
  /\ bestk[1].score < bestk[2].score

(***************************************************************************)
(* composite_score and accept_policy on their own: the inputs are drawn    *)
(* around every cap and threshold, then one input is raised and the        *)
(* functions are applied again.                                            *)
(***************************************************************************)
PhVals    == {0, 12, 13, 18, 19}
GoodVals  == {0, 11, 12, 15, 16, 45}
InlVals   == {0, 9, 10, 13, 14, 41}
HudVals   == {5500, 5501, 50000, 60000}
ChamfVals == {0, 79999, 80000, 90000, 9990000}
ArpVals   == {0, 8000, 9000}

ScoreInputs ==
  [ph_d : PhVals, good : GoodVals, inl : InlVals, hu_d : HudVals,
   chamf : ChamfVals, ar_pen : ArpVals]

InitScore ==
  /\ sc_pc = "ready"
  /\ sc_in \in ScoreInputs
  /\ sc_out = 0
  /\ sc_acc = FALSE
  /\ sc_prev = <<>>

Evaluate(in) ==
  /\ sc_out' = composite_score(in.ph_d, in.good, in.inl, in.hu_d, in.chamf, in.ar_pen)
  /\ sc_acc' = accept_policy(in.ph_d, in.good, in.inl, in.hu_d)

ScoreIt ==
  /\ sc_pc = "ready"
  /\ sc_in' = sc_in
  /\ Evaluate(sc_in)
  /\ sc_prev' = <<>>
  /\ sc_pc' = "scored"
  /\ UNCHANGED <<matchVars, phashVars, cacheVars, annVars, runVars, mapVars>>

RaiseChamfer ==
  /\ sc_pc = "scored"
  /\ \E c \in ChamfVals :
       /\ c > sc_in.chamf
       /\ sc_in' = [sc_in EXCEPT !.chamf = c]
  /\ Evaluate(sc_in')
  /\ sc_prev' = << [in |-> sc_in, out |-> sc_out] >>
  /\ UNCHANGED <<sc_pc, matchVars, phashVars, cacheVars, annVars, runVars, mapVars>>

RaiseInliers ==
  /\ sc_pc = "scored"
  /\ \E i \in InlVals :
       /\ i > sc_in.inl
       /\ sc_in' = [sc_in EXCEPT !.inl = i]
  /\ Evaluate(sc_in')
  /\ sc_prev' = << [in |-> sc_in, out |-> sc_out] >>
  /\ UNCHANGED <<sc_pc, matchVars, phashVars, cacheVars, annVars, runVars, mapVars>>

NextScore ==
  \/ ScoreIt
  \/ RaiseChamfer
  \/ RaiseInliers

InitOfScore ==
  IdleMatch /\ InitScore /\ IdlePhash /\ IdleCache /\ IdleAnn /\ IdleRuns /\ IdleMaps

SpecScore == InitOfScore /\ [][NextScore]_vars

(* the cap of a term, written out *)
Capped(x, cap) == IF x > cap THEN cap ELSE x

(* C6 -- composite_score is 1.0 ph_d + 2.2 min(chamf, 8) + 6.0 min(ar_pen, *)
(* 0.8) + 0.6 min(hu_d, 5) - 0.1 min(good, 40) - 0.25 min(inl, 40): past   *)
(* its cap a term counts as the cap.                                       *)
C6_CompositeFormula ==
  sc_pc = "scored" =>
     sc_out = 100000 * sc_in.ph_d
              + 22 * Capped(sc_in.chamf, 80000)
              + 60 * Capped(sc_in.ar_pen, 8000)
              + 6 * Capped(sc_in.hu_d, 50000)
              - 10000 * Capped(sc_in.good, 40)
              - 25000 * Capped(sc_in.inl, 40)

C6_Witness ==
  /\ sc_pc = "scored"
  /\ sc_in.chamf > 80000 /\ sc_in.ar_pen > 8000 /\ sc_in.hu_d > 50000
  /\ sc_in.good > 40 /\ sc_in.inl > 40
  /\ sc_out = 100000 * sc_in.ph_d + 1760000 + 480000 + 300000 - 400000 - 1000000

(* C7 -- Score monotonicity: with the other inputs held, a larger chamfer  *)
(* distance never gives a smaller score and a larger inlier count never a  *)
(* larger one, past the caps too.                                          *)
C7_Monotone ==
  (sc_pc = "scored" /\ sc_prev # <<>>) =>
     LET p == sc_prev[1]
     IN  /\ ([p.in EXCEPT !.chamf = sc_in.chamf] = sc_in /\ sc_in.chamf >= p.in.chamf)
              => sc_out >= p.out
         /\ ([p.in EXCEPT !.inl = sc_in.inl] = sc_in /\ sc_in.inl >= p.in.inl)
              => sc_out <= p.out

C7_Witness ==
  /\ sc_pc = "scored" /\ sc_prev # <<>>
  /\ sc_prev[1].in.inl < sc_in.inl /\ sc_in.inl > 40
  /\ sc_out < sc_prev[1].out

(* C8 -- accept_policy is True exactly on (ph_d <= 12 and (good >= 12 or   *)
(* inl >= 10)) or (ph_d <= 18 and inl >= 14) or (hu_d <= 0.55 and good >=  *)
(* 16).                                                                    *)
C8_AcceptExactly ==
  sc_pc = "scored" =>
     (sc_acc <=> \/ sc_in.ph_d <= 12 /\ (sc_in.good >= 12 \/ sc_in.inl >= 10)
                 \/ sc_in.ph_d <= 18 /\ sc_in.inl >= 14
                 \/ sc_in.hu_d <= 5500 /\ sc_in.good >= 16)

C8_Witness ==
  /\ sc_pc = "scored" /\ sc_acc
  /\ sc_in.ph_d > 12 /\ sc_in.ph_d <= 18 /\ sc_in.inl >= 14
  /\ ~(sc_in.hu_d <= 5500 /\ sc_in.good >= 16)

(***************************************************************************)
(* phash_best_rotflip on its own, on every ImgSide x ImgSide image of ink  *)
(* (0) and paper (255).  The hash is taken on a HashSide x HashSide grid   *)
(* and keeps all of its frequencies (phash's hash_size = HashSide,         *)
(* highfreq = 1) where match.py takes 32 x 32 and keeps 8 x 8.             *)
(***************************************************************************)

Pixels == {0, 255}

(* images and hashes are kept flattened row by row, pixel (i, j) of a      *)
(* side-n image at index i * n + j + 1                                     *)
Row(k, n) == (k - 1) \div n
Col(k, n) == (k - 1) % n
At(img, n, i, j) == img[i * n + j + 1]

(* a normalized image: a white (255) canvas carrying the skeleton's ink    *)
(* (0) on at most MaxInk pixels; the blank canvas is one of them           *)
Images == {img \in [1..(ImgSide * ImgSide) -> Pixels] :
             Cardinality({k \in DOMAIN img : img[k] = 0}) <= MaxInk}

(* np.rot90: a quarter turn counter-clockwise *)
rot90(img) ==
  LET n == ImgSide
  IN  Array([k \in 1..(n * n) |-> At(img, n, Col(k, n), n - 1 - Row(k, n))], n * n)

(* cv2.flip(img, 1), np.fliplr: mirror left-right *)
flip1(img) ==
  LET n == ImgSide
  IN  Array([k \in 1..(n * n) |-> At(img, n, Row(k, n), n - 1 - Col(k, n))], n * n)

(* cv2.resize(image, (g, g), INTER_AREA) of an ImgSide x ImgSide image:    *)
(* each output pixel is the mean of the input area it covers, rounded.     *)
resize_area(img, g) ==
  LET n == ImgSide
      ov(i, x) == Max(0, Min(g * x + g, (i + 1) * n) - Max(g * x, i * n))
      total(i, j) ==
        SumSeq(Array([k \in 1..(n * n) |-> ov(i, Row(k, n)) * ov(j, Col(k, n)) * img[k]], n * n))
  IN  Array([q \in 1..(g * g) |-> (2 * total(Row(q, g), Col(q, g)) + n * n) \div (2 * n * n)], g * g)

(* the rows of the orthonormal DCT-II matrix, in 1/1000 *)
DctBasis(n) ==
  IF n = 2 THEN << <<707, 707>>, <<707, -707>> >>
  ELSE << <<577, 577, 577>>, <<707, 0, -707>>, <<408, -816, 408>> >>

(* cv2.dct of the HashSide x HashSide image: D[u][v] = sum C[u][x] C[v][y] img[x][y] *)
dct2(img) ==
  LET g == HashSide
      C == DctBasis(g)
  IN  Array([q \in 1..(g * g) |->
              SumSeq(Array([k \in 1..(g * g) |-> C[Row(q, g) + 1][Row(k, g) + 1]
                                      * C[Col(q, g) + 1][Col(k, g) + 1] * img[k]], g * g))], g * g)

(* np.median, doubled: the sum of the two middle values (twice the middle  *)
(* value of an odd number of them)                                         *)
median2(vals) ==
  LET srt == StableSort(vals, vals)
      n   == Len(vals)
  IN  srt[(n + 1) \div 2] + srt[(n \div 2) + 1]

(* phash with hash_size = HashSide and highfreq = 1: the bits              *)
(* dct > median(dct[1:, 1:]), flattened row by row                         *)
phash(image) ==
  LET g   == HashSide
      m   == g - 1
      d   == dct2(resize_area(image, g))
      med == median2(Array([k \in 1..(m * m) |-> At(d, g, 1 + Row(k, m), 1 + Col(k, m))], m * m))
  IN  Array([k \in 1..(g * g) |-> IF 2 * d[k] > med THEN 1 ELSE 0], g * g)

hamming(a, b) == Cardinality({k \in DOMAIN a : a[k] # b[k]})

(* np.rot90 applied k times, as the loop of phash_best_rotflip applies it *)
rot90k(img, k) == IF k = 0 THEN img
                  ELSE IF k = 1 THEN rot90(img)
                  ELSE IF k = 2 THEN rot90(rot90(img))
                  ELSE rot90(rot90(rot90(img)))

(* rotate90(I, k) of the rotation-invariance property: k quarter turns     *)
(* clockwise, each one undone by one np.rot90                              *)
rotate90(img, k) == rot90k(img, (4 - k) % 4)

(* mutant: the mirrored trials are left out (flip in (False,) only) *)
phash_best_rotflip_unmirrored(q_img, c_img) ==
  LET qh == phash(q_img)
      bst[t \in 0..4] ==
        IF t = 0 THEN <<1000000000, 0, FALSE>>
        ELSE LET dist == hamming(qh, phash(rot90k(c_img, t - 1)))
                 prev == bst[t - 1]
             IN  IF dist < prev[1]
                 THEN <<dist, 90 * (t - 1), FALSE>>
                 ELSE prev
  IN  bst[4]

(* mutant: a later trial wins on an equal distance too (<= for <) *)
phash_best_rotflip_last_wins(q_img, c_img) ==
  LET qh == phash(q_img)
      flipOf(t) == t > 4
      turns(t)  == (t - 1) % 4
      cur(t)    == rot90k(IF flipOf(t) THEN flip1(c_img) ELSE c_img, turns(t))
      bst[t \in 0..8] ==
        IF t = 0 THEN <<1000000000, 0, FALSE>>
        ELSE LET dist == hamming(qh, phash(cur(t)))
                 prev == bst[t - 1]
             IN  IF dist <= prev[1]
                 THEN <<dist, (90 * turns(t)) % 360, flipOf(t)>>
                 ELSE prev
  IN  bst[8]

(* phash_best_rotflip: trial t = 1..8 is flip in (False, True) by four     *)
(* quarter turns; a later trial wins only with a strictly smaller distance *)
phash_best_rotflip(q_img, c_img) ==
  LET qh == phash(q_img)
      flipOf(t) == t > 4
      turns(t)  == (t - 1) % 4
      cur(t)    == rot90k(IF flipOf(t) THEN flip1(c_img) ELSE c_img, turns(t))
      bst[t \in 0..8] ==
        IF t = 0 THEN <<1000000000, 0, FALSE>>
        ELSE LET dist == hamming(qh, phash(cur(t)))
                 prev == bst[t - 1]
             IN  IF dist < prev[1]
                 THEN <<dist, (90 * turns(t)) % 360, flipOf(t)>>
                 ELSE prev
  IN  bst[8]

InitPhash ==
  /\ ph_pc = "start"
  /\ ph_q \in Images
  /\ ph_c = ph_q
  /\ ph_how = 0
  /\ ph_res = <<0, 0, FALSE>>

(* the candidate is the query turned k quarter turns clockwise *)
PoseRotate ==
  /\ ph_pc = "start"
  /\ \E k \in 0..3 :
       /\ ph_c' = rotate90(ph_q, k)
       /\ ph_how' = k
  /\ ph_pc' = "posed"
  /\ UNCHANGED <<ph_q, ph_res, matchVars, scoreVars, cacheVars, annVars, runVars, mapVars>>

(* the candidate is the query mirrored (ph_how = 4) *)
PoseMirror ==
  /\ ph_pc = "start"
  /\ ph_c' = flip1(ph_q)
  /\ ph_how' = 4
  /\ ph_pc' = "posed"
  /\ UNCHANGED <<ph_q, ph_res, matchVars, scoreVars, cacheVars, annVars, runVars, mapVars>>

MatchPose ==
  /\ ph_pc = "posed"
  /\ ph_res' = phash_best_rotflip(ph_q, ph_c)
  /\ ph_pc' = "matched"
  /\ UNCHANGED <<ph_q, ph_c, ph_how, matchVars, scoreVars, cacheVars, annVars, runVars, mapVars>>

NextPhash ==
  \/ PoseRotate
  \/ PoseMirror
  \/ MatchPose

InitOfPhash ==
  IdleMatch /\ IdleScore /\ InitPhash /\ IdleCache /\ IdleAnn /\ IdleRuns /\ IdleMaps

SpecPhash == InitOfPhash /\ [][NextPhash]_vars

C11_MirrorIsFlagged ==
  (ph_pc = "matched" /\ ph_how = 4) =>
     /\ ph_res[1] = 0
     /\ ph_res[3] = TRUE

(* C11 as amended: the distance is 0; mirrored is True exactly when no     *)
(* unmirrored quarter turn of mirror(I) has the pHash of I, and then the   *)
(* rotation is the least turn of the re-mirrored candidate that has it.    *)
C11_MirrorUnlessTurn ==
  (ph_pc = "matched" /\ ph_how = 4) =>
     LET qh == phash(ph_q)
         plain == {r \in 0..3 : phash(rot90k(ph_c, r)) = qh}
         back  == {r \in 0..3 : phash(rot90k(flip1(ph_c), r)) = qh}
     IN  /\ ph_c = flip1(ph_q)
         /\ ph_res[1] = 0
         /\ ph_res[3] = (plain = {})
         /\ 0 \in back
         /\ plain = {} => ph_res[2] = 0
         /\ plain # {} => /\ ph_res[2] \div 90 \in plain
                          /\ \A r \in plain : 90 * r >= ph_res[2]

C11_Witness ==
  /\ ph_pc = "matched" /\ ph_how = 4
  /\ ph_c # ph_q
  /\ ph_res = <<0, 0, TRUE>>

(***************************************************************************)
(* build_deep_index and its cache (ai_prefilter.py, lines 92-181)          *)
(*                                                                         *)
(* A candidate file is [path, stamp]: stamp stands for its (mtime, size)    *)
(* and for the image it holds.  An embedding row is [net, path, stamp, v]: *)
(* what the network net gives for orientation v of that image.  Owners are *)
(* 1-based here (0-based in the code).                                     *)
(***************************************************************************)
Backbones == {"resnet18", "mobilenet_v3_small"}
BatchSizes == {1, 3, 5, 64}
FlushPeriods == {2, 200}
CACHE_TAG == "M1_AUTO_CLUSTERS"

(* DeepEmbedder.__init__: any backbone but mobilenet_v3_small is resnet18 *)
DeepEmbedder(backbone) ==
  IF backbone = "mobilenet_v3_small" THEN "mobilenet_v3_small" ELSE "resnet18"

(* rot_variants / rotflip_variants: orientations 1..4 are the quarter      *)
(* turns, 5..8 the quarter turns of the mirror image                       *)
rot_variants(c) == [v \in 1..4 |-> [path |-> c.path, stamp |-> c.stamp, v |-> v]]
rotflip_variants(c) == [v \in 1..8 |-> [path |-> c.path, stamp |-> c.stamp, v |-> v]]

(* embed_batch: one row per image, in the order given *)
embed_batch(net, imgs) ==
  [j \in 1..Len(imgs) |->
     [net |-> net, path |-> imgs[j].path, stamp |-> imgs[j].stamp, v |-> imgs[j].v]]

(* _cache_key: the md5 of the JSON text of (meta, mirror, bb), taken as    *)
(* one-to-one on these texts, with the tag appended (line 125)             *)
cache_key(cands, use_mirror, backbone) ==
  [meta   |-> [j \in 1..Len(cands) |-> <<cands[j].path, cands[j].stamp>>],
   mirror |-> use_mirror,
   bb     |-> backbone,
   tag    |-> CACHE_TAG]

PathsOf(cands) == [j \in 1..Len(cands) |-> cands[j].path]

(* mutant: the chunk is embedded but not cleared *)
flush_chunk_keeps(net, st) ==
  IF st.imgs_chunk = <<>> THEN st
  ELSE [emb_list     |-> st.emb_list \o embed_batch(net, st.imgs_chunk),
        owner_list   |-> st.owner_list \o st.owners_chunk,
        imgs_chunk   |-> st.imgs_chunk,
        owners_chunk |-> st.owners_chunk,
        calls        |-> st.calls + 1]

(* flush_chunk (lines 145-151) on the loop state st *)
flush_chunk(net, st) ==
  IF st.imgs_chunk = <<>> THEN st
  ELSE [emb_list     |-> st.emb_list \o embed_batch(net, st.imgs_chunk),
        owner_list   |-> st.owner_list \o st.owners_chunk,
        imgs_chunk   |-> <<>>,
        owners_chunk |-> <<>>,
        calls        |-> st.calls + 1]

(* one turn of the inner loop (lines 155-162): orientation v of candidate *)
(* i joins the chunk; a flush when the chunk has batch_size images, and    *)
(* one after the last orientation of every flush_every-th candidate        *)
append_variant(net, st, img, i, last_of_cand, batch_size, flush_every) ==
  LET s1 == [st EXCEPT !.imgs_chunk = Append(@, img), !.owners_chunk = Append(@, i)]
      s2 == IF Len(s1.imgs_chunk) >= batch_size THEN flush_chunk(net, s1) ELSE s1
  IN  IF last_of_cand /\ i % flush_every = 0 THEN flush_chunk(net, s2) ELSE s2

(* "Build fresh" (lines 139-168): turn t of the loops is orientation v of  *)
(* candidate i; the flush every 200 candidates is every flush_every here;  *)
(* a last flush, then emb = vstack(emb_list) and owner = owner_list.       *)
build_fresh(cands, net, use_mirror, batch_size, flush_every) ==
  LET k     == IF use_mirror THEN 8 ELSE 4
      total == k * Len(cands)
      vs(i) == IF use_mirror THEN rotflip_variants(cands[i]) ELSE rot_variants(cands[i])
      st[t \in 0..total] ==
        IF t = 0
        THEN [emb_list |-> <<>>, owner_list |-> <<>>, imgs_chunk |-> <<>>,
              owners_chunk |-> <<>>, calls |-> 0]
        ELSE LET i == ((t - 1) \div k) + 1
                 v == ((t - 1) % k) + 1
             IN  CHOOSE nxt \in {append_variant(net, prev, vs(i)[v], i, v = k,
                                                batch_size, flush_every) :
                                   prev \in {st[t - 1]}} : TRUE
      last  == CHOOSE fin \in {flush_chunk(net, prev) : prev \in {st[total]}} : TRUE
  IN  [status    |-> "ok",
       hit       |-> FALSE,
       emb       |-> last.emb_list,
       owner     |-> last.owner_list,
       paths     |-> PathsOf(cands),
       k_orients |-> k,
       calls     |-> last.calls]

(* the file np.savez_compressed writes at line 172 *)
SavedFile(key, out) ==
  [key |-> key, emb |-> out.emb, owner |-> out.owner, paths |-> out.paths,
   pickled |-> TRUE, corrupt |-> FALSE]

(* what a write at line 172 that was cut short leaves under the name *)
PartialFile(key) ==
  [key |-> key, emb |-> <<>>, owner |-> <<>>, paths |-> <<>>,
   pickled |-> FALSE, corrupt |-> TRUE]

Raised == [status |-> "raised", hit |-> FALSE, emb |-> <<>>, owner |-> <<>>,
           paths |-> <<>>, k_orients |-> 0, calls |-> 0]

(* line 125: the backbone that enters the key *)
KeyBackbone(backbone) == "resnet18"

(* mutant: the cache file is saved again when it was just loaded *)
build_deep_index_cached_saves_hits(cands, args, dir, save_ok) ==
  LET key   == cache_key(cands, args.use_mirror, KeyBackbone(args.backbone))
      found == {f \in dir : f.key = key}
      file  == CHOOSE f \in found : TRUE
      fresh == build_fresh(cands, DeepEmbedder(args.backbone), args.use_mirror,
                           args.batch_size, args.flush_every)
      hit   == [status |-> "ok", hit |-> TRUE, emb |-> file.emb,
                owner |-> file.owner, paths |-> PathsOf(cands),
                k_orients |-> IF args.use_mirror THEN 8 ELSE 4, calls |-> 0]
  IN  IF args.cache_dir /\ found # {} /\ LoadRaises(file)
      THEN [out |-> Raised, dir |-> dir]
      ELSE IF args.cache_dir /\ found # {} /\ file.paths = PathsOf(cands)
      THEN [out |-> hit,
            dir |-> IF save_ok THEN (dir \ found) \cup {SavedFile(key, hit)} ELSE dir]
      ELSE [out |-> fresh,
            dir |-> IF args.cache_dir /\ save_ok
                    THEN (dir \ found) \cup {SavedFile(key, fresh)}
                    ELSE dir]

(* build_deep_index with cache_dir (lines 119-181): the value returned and *)
(* the directory left; save_ok is whether the write at line 172 succeeded  *)
(* (its failure is swallowed at 173-174).                                  *)
build_deep_index_cached(cands, args, dir, save_ok) ==
  LET key   == cache_key(cands, args.use_mirror, KeyBackbone(args.backbone))
      found == {f \in dir : f.key = key}
      file  == CHOOSE f \in found : TRUE
      fresh == build_fresh(cands, DeepEmbedder(args.backbone), args.use_mirror,
                           args.batch_size, args.flush_every)
  IN  IF args.cache_dir /\ found # {} /\ LoadRaises(file)
      THEN [out |-> Raised, dir |-> dir]
      ELSE IF args.cache_dir /\ found # {} /\ file.paths = PathsOf(cands)
      THEN [out |-> [status |-> "ok", hit |-> TRUE, emb |-> file.emb,
                     owner |-> file.owner, paths |-> PathsOf(cands),
                     k_orients |-> IF args.use_mirror THEN 8 ELSE 4, calls |-> 0],
            dir |-> dir]
      ELSE [out |-> fresh,
            dir |-> IF args.cache_dir /\ save_ok
                    THEN (dir \ found) \cup {SavedFile(key, fresh)}
                    ELSE dir]

(* ---- the calls: specification SpecCache ---- *)
CandFiles(n) == [j \in 1..n |-> [path |-> j, stamp |-> 0]]

BuildArgs == [use_mirror : BOOLEAN, backbone : Backbones, batch_size : BatchSizes,
              flush_every : FlushPeriods, cache_dir : BOOLEAN]

(* a file found in the directory under the first call's name: left by an   *)
(* earlier run (pickled paths) or by another writer (paths as strings), for *)
(* the same candidate list or for one that had a further candidate, or by  *)
(* a run that ended during the write                                       *)
LeftFiles(cands, args) ==
  LET key == cache_key(cands, args.use_mirror, KeyBackbone(args.backbone))
      olds == {cands, Append(cands, [path |-> 9, stamp |-> 0])}
  IN  {[SavedFile(key, build_fresh(old, "resnet18", args.use_mirror, 64, 200))
          EXCEPT !.pickled = pk] : old \in olds, pk \in BOOLEAN}
      \cup {PartialFile(key)}

InitCache ==
  /\ cb_pc = "ready"
  /\ cb_cands \in {CandFiles(n) : n \in 0..MaxCands}
  /\ cb_args \in BuildArgs
  /\ cb_dir \in {{}} \cup {{f} : f \in LeftFiles(cb_cands, cb_args)}
  /\ cb_out = <<>>
  /\ cb_calls = 0
  /\ cb_prev = <<>>
  /\ cb_builds = 0

(* the file the directory holds under the name this call computes *)
FilesFound(cands, args, dir) ==
  {f \in dir : f.key = cache_key(cands, args.use_mirror, KeyBackbone(args.backbone))}

(* one call of build_deep_index; cb_out keeps what it returned, with the   *)
(* candidates and arguments it was given and the cache file it found       *)
Build ==
  /\ cb_pc = "ready"
  /\ \E save_ok \in BOOLEAN :
       LET r == build_deep_index_cached(cb_cands, cb_args, cb_dir, save_ok)
       IN  /\ cb_out' = [res |-> r.out, cands |-> cb_cands, args |-> cb_args,
                         found |-> FilesFound(cb_cands, cb_args, cb_dir)]
           /\ cb_dir' = r.dir
           /\ cb_calls' = r.out.calls
  /\ cb_prev' = IF cb_builds = 0 THEN <<>> ELSE <<cb_out>>
  /\ cb_builds' = cb_builds + 1
  /\ cb_pc' = "built"
  /\ UNCHANGED <<cb_cands, cb_args, matchVars, scoreVars, phashVars, annVars, runVars, mapVars>>

(* between two calls: nothing changes *)
CallAgain ==
  /\ cb_pc = "built" /\ cb_builds < MaxBuilds
  /\ cb_pc' = "ready"
  /\ UNCHANGED <<cb_cands, cb_args, cb_dir, cb_out, cb_calls, cb_prev, cb_builds,
                 matchVars, scoreVars, phashVars, annVars, runVars, mapVars>>

(* between two calls: a candidate file is rewritten, or the candidate list *)
(* comes in another order                                                  *)
ChangeFiles ==
  /\ cb_pc = "built" /\ cb_builds < MaxBuilds
  /\ \/ \E j \in 1..Len(cb_cands) :
          /\ cb_cands[j].stamp = 0
          /\ cb_cands' = [cb_cands EXCEPT ![j].stamp = 1]
     \/ /\ Len(cb_cands) >= 2
        /\ cb_cands' = [cb_cands EXCEPT ![1] = cb_cands[2], ![2] = cb_cands[1]]
  /\ cb_pc' = "ready"
  /\ UNCHANGED <<cb_args, cb_dir, cb_out, cb_calls, cb_prev, cb_builds,
                 matchVars, scoreVars, phashVars, annVars, runVars, mapVars>>

(* between two calls: the next call asks for the other orientation mode *)
ChangeMirror ==
  /\ cb_pc = "built" /\ cb_builds < MaxBuilds
  /\ cb_args' = [cb_args EXCEPT !.use_mirror = ~@]
  /\ cb_pc' = "ready"
  /\ UNCHANGED <<cb_cands, cb_dir, cb_out, cb_calls, cb_prev, cb_builds,
                 matchVars, scoreVars, phashVars, annVars, runVars, mapVars>>

(* between two calls: the next call brings an embedder of the other backbone *)
ChangeBackbone ==
  /\ cb_pc = "built" /\ cb_builds < MaxBuilds
  /\ \E bb \in Backbones \ {cb_args.backbone} :
       cb_args' = [cb_args EXCEPT !.backbone = bb]
  /\ cb_pc' = "ready"
  /\ UNCHANGED <<cb_cands, cb_dir, cb_out, cb_calls, cb_prev, cb_builds,
                 matchVars, scoreVars, phashVars, annVars, runVars, mapVars>>

NextCache ==
  \/ Build
  \/ CallAgain
  \/ ChangeFiles
  \/ ChangeMirror
  \/ ChangeBackbone

InitOfCache ==
  IdleMatch /\ IdleScore /\ IdlePhash /\ InitCache /\ IdleAnn /\ IdleRuns /\ IdleMaps

SpecCache == InitOfCache /\ [][NextCache]_vars

(* the last call and the one before it *)
Cur == cb_out
Prev == cb_prev[1]
SecondCall == cb_pc = "built" /\ cb_prev # <<>>

(* C12 -- Cache idempotence as claimed: a second call with the same cache  *)
(* directory and unchanged candidates and arguments, the first call's file *)
(* being there, returns the first call's (emb, owner) and never calls      *)
(* embed_batch.                                                            *)
C12_SecondBuildFromCache ==
  (/\ SecondCall /\ Cur.cands # <<>>
   /\ Cur.cands = Prev.cands /\ Cur.args = Prev.args /\ Cur.args.cache_dir
   /\ Prev.res.status = "ok" /\ Cur.found # {}) =>
     /\ Cur.res.status = "ok"
     /\ Cur.res.emb = Prev.res.emb
     /\ Cur.res.owner = Prev.res.owner
     /\ cb_calls = 0

(* C13 -- Caching invariant as claimed: when the file identities, the      *)
(* orientation mode or the backbone differ from those of the call before,  *)
(* the cache key differs and the index is rebuilt.                         *)
C13_KeyCoversBackbone ==
  (/\ SecondCall /\ Cur.cands # <<>>
   /\ Cur.args.cache_dir /\ Prev.args.cache_dir /\ Prev.res.status = "ok"
   /\ \/ Cur.cands # Prev.cands
      \/ Cur.args.use_mirror # Prev.args.use_mirror
      \/ Cur.args.backbone # Prev.args.backbone) =>
     /\ cache_key(Cur.cands, Cur.args.use_mirror, KeyBackbone(Cur.args.backbone))
          # cache_key(Prev.cands, Prev.args.use_mirror, KeyBackbone(Prev.args.backbone))
     /\ Cur.res.status = "ok" /\ ~Cur.res.hit
     /\ \A j \in DOMAIN Cur.res.emb :
          Cur.res.emb[j].net = DeepEmbedder(Cur.args.backbone)

(* C14 -- CacheMismatch recovery as claimed: a cache file under the        *)
(* computed key whose saved paths differ from the current ones is not      *)
(* used: the index is rebuilt from the current candidates and returned.    *)
C14_MismatchRebuilds ==
  (/\ cb_pc = "built" /\ Cur.args.cache_dir /\ Cur.cands # <<>>
   /\ \E f \in Cur.found : f.paths # PathsOf(Cur.cands)) =>
     /\ Cur.res.status = "ok" /\ ~Cur.res.hit
     /\ Cur.res = build_fresh(Cur.cands, DeepEmbedder(Cur.args.backbone),
                              Cur.args.use_mirror, Cur.args.batch_size,
                              Cur.args.flush_every)

(* C15 -- EmbeddingIndex invariant: a build over N candidates with K       *)
(* orientations gives emb and owner N*K rows each, every owner a candidate *)
(* index, K rows per candidate, and row j the embedding of the j-th        *)
(* generated variant, for every batch size and with the periodic flush.    *)
C15_IndexRows ==
  (cb_pc = "built" /\ Cur.res.status = "ok" /\ ~Cur.res.hit) =>
     LET n   == Len(Cur.cands)
         k   == IF Cur.args.use_mirror THEN 8 ELSE 4
         emb == Cur.res.emb
         own == Cur.res.owner
     IN  /\ Cur.res.k_orients = k
         /\ Len(emb) = n * k /\ Len(own) = n * k
         /\ \A j \in 1..(n * k) : own[j] \in 1..n
         /\ \A i \in 1..n : Cardinality({j \in 1..(n * k) : own[j] = i}) = k
         /\ \A j \in 1..(n * k) :
              /\ own[j] = ((j - 1) \div k) + 1
              /\ emb[j] = [net   |-> DeepEmbedder(Cur.args.backbone),
                           path  |-> Cur.cands[own[j]].path,
                           stamp |-> Cur.cands[own[j]].stamp,
                           v     |-> ((j - 1) % k) + 1]
         /\ own = build_deep_index(Cur.cands, Cur.args.use_mirror).owner
         /\ Cur.res.paths = build_deep_index(Cur.cands, Cur.args.use_mirror).paths

(* a build whose chunks do not end with a candidate: batch size 3 or 5,    *)
(* three candidates, the periodic flush after the second                   *)
C15_Witness ==
  /\ cb_pc = "built" /\ Cur.res.status = "ok" /\ ~Cur.res.hit
  /\ Len(Cur.cands) = 3 /\ Cur.args.batch_size \in {3, 5}
  /\ Cur.args.flush_every = 2
  /\ Len(Cur.res.emb) = 3 * Cur.res.k_orients
  /\ cb_calls >= 4

(***************************************************************************)
(* Properties of the run of main() (specification Spec): what a run does   *)
(* with an empty index                                                     *)
(***************************************************************************)
(* C16 -- Empty index as claimed: when the embedding index has no rows,    *)
(* deep_prefilter returns an empty shortlist without raising and the query *)
(* is verified against the full candidate set.                             *)
C16_EmptyIndexNoPrefilter ==
  (Len(deep_idx.owner) = 0 /\ qimg # <<>>) =>
     /\ pc # "crashed"
     /\ keep_ids = <<>>
     /\ c_subset = [j \in 1..Len(cand_idx) |-> j]

(***************************************************************************)
(* deep_prefilter with the faiss index and without it (ai_prefilter.py     *)
(* lines 183-218): one index, one query, both paths.                       *)
(***************************************************************************)
FAISS_MIN_K == 50

(* cosine similarities in 1/1000 that the embedder gives: every candidate  *)
(* at its own level, candidate x far below or far above the others, and    *)
(* every row of one search at its own value; the second candidate may     *)
(* have one orientation that fits the last query orientation far better   *)
(* than any of its other pairs                                             *)
AnnLevels == {100, 900}
AnnPeaks == {0, 300}

EmbedderSims(n, k, x, lvl, peak) ==
  Array([i \in 1..k |->
     Array([r \in 1..(n * k) |->
        LET c == ((r - 1) \div k) + 1
            v == ((r - 1) % k) + 1
        IN  (IF c = x THEN lvl ELSE 500 + 10 * c) + ((v + i) % k)
              + (IF c = Min(2, n) /\ i = k /\ v = 1 THEN peak ELSE 0)], n * k)], k)

(* faiss.IndexFlatIP.search(q, K): the K rows of largest inner product,    *)
(* largest first                                                           *)
faiss_search(row_sims, K) ==
  LET n    == Len(row_sims)
      rank == Array([r \in 1..n |->
                1 + Cardinality({j \in 1..n : row_sims[j] > row_sims[r]
                       \/ (row_sims[j] = row_sims[r] /\ j < r)})], n)
  IN  Array([p \in 1..K |-> CHOOSE r \in 1..n : rank[r] = p], K)

(* list(dict.fromkeys(owners)): each owner once, in order of first hit *)
dict_fromkeys(owners) ==
  LET seen     == {owners[h] : h \in 1..Len(owners)}
      first(o) == CHOOSE h \in 1..Len(owners) :
                    owners[h] = o /\ \A g \in 1..(h - 1) : owners[g] # o
      place(o) == 1 + Cardinality({u \in seen : first(u) < first(o)})
  IN  [p \in 1..Cardinality(seen) |-> CHOOSE o \in seen : place(o) = p]

(* mutant: the maximum over the first query orientation only *)
max_per_owner_first_turn(sims, owner, o) ==
  LET vals == {sims[1][r] : r \in {t \in 1..Len(owner) : owner[t] = o}}
  IN  CHOOSE m \in vals : \A w \in vals : w <= m

(* float(np.max(sims[:, owner == o])) *)
max_per_owner(sims, owner, o) ==
  LET vals == {sims[i][r] : i \in 1..Len(sims),
                            r \in {t \in 1..Len(owner) : owner[t] = o}}
  IN  CHOOSE m \in vals : \A w \in vals : w <= m

(* lines 196-209: the path taken when deep_idx["faiss"] is not None *)
deep_prefilter_faiss(sims, owner, top_m) ==
  LET K      == Min(Max(top_m, FAISS_MIN_K), Len(owner))
      found  == Array([i \in 1..Len(sims) |-> faiss_search(sims[i], K)], Len(sims))
      owners == Array([h \in 1..(Len(sims) * K) |->
                  owner[found[((h - 1) \div K) + 1][((h - 1) % K) + 1]]],
                  Len(sims) * K)
      uniq   == dict_fromkeys(owners)
      maxs   == Array([p \in 1..Len(uniq) |-> max_per_owner(sims, owner, uniq[p])],
                      Len(uniq))
      ranked == StableSort(uniq, [p \in 1..Len(uniq) |-> 0 - maxs[p]])
  IN  Prefix(ranked, top_m)

(* lines 211-218: the path taken when deep_idx["faiss"] is None *)
deep_prefilter_dense(sims, owner, top_m) ==
  LET n == Cardinality({owner[r] : r \in 1..Len(owner)})
  IN  deep_prefilter(Array([o \in 1..n |-> max_per_owner(sims, owner, o)], n),
                     [owner |-> owner], top_m)

InitAnn ==
  /\ an_pc = "ready"
  /\ \E n \in 1..MaxAnnCands, use_mirror \in BOOLEAN, lvl \in AnnLevels :
       \E x \in {1, n}, peak \in AnnPeaks :
         LET idx == build_deep_index([j \in 1..n |-> [path |-> j]], use_mirror)
         IN  /\ an_owner = idx.owner
             /\ an_sims = EmbedderSims(n, idx.k_orients, x, lvl, peak)
  /\ an_top_m \in TopMSettings
  /\ an_done = {}
  /\ an_faiss = <<>>
  /\ an_dense = <<>>

(* the query on an installation that has faiss *)
FaissPath ==
  /\ an_pc = "ready" /\ "faiss" \notin an_done
  /\ an_faiss' = deep_prefilter_faiss(an_sims, an_owner, an_top_m)
  /\ an_done' = an_done \cup {"faiss"}
  /\ UNCHANGED <<an_pc, an_owner, an_sims, an_top_m, an_dense,
                 matchVars, scoreVars, phashVars, cacheVars, runVars, mapVars>>

(* the same query on an installation without faiss *)
DensePath ==
  /\ an_pc = "ready" /\ "dense" \notin an_done
  /\ an_dense' = deep_prefilter_dense(an_sims, an_owner, an_top_m)
  /\ an_done' = an_done \cup {"dense"}
  /\ UNCHANGED <<an_pc, an_owner, an_sims, an_top_m, an_faiss,
                 matchVars, scoreVars, phashVars, cacheVars, runVars, mapVars>>

NextAnn ==
  \/ FaissPath
  \/ DensePath

InitOfAnn ==
  IdleMatch /\ IdleScore /\ IdlePhash /\ IdleCache /\ InitAnn /\ IdleRuns /\ IdleMaps

SpecAnn == InitOfAnn /\ [][NextAnn]_vars

(* C17 -- ANN/brute-force equivalence as claimed: the shortlist of the     *)
(* faiss path is the shortlist of the dense path, same candidate indices   *)
(* in the same order, for every index content, query and top_m.            *)
C17_SameShortlist ==
  an_done = {"faiss", "dense"} => an_faiss = an_dense

(***************************************************************************)
(* Properties of the run of main() (specification Spec): errors raised,    *)
(* empty sets, pairs without a geometric fit                               *)
(***************************************************************************)
(* C18 -- Failure isolation as claimed: an error raised on one query or    *)
(* while the index of one subfolder is built does not end the run; the     *)
(* run is never left stopped by an error before the JSON summaries are     *)
(* written.                                                                *)
C18_FailureIsolated ==
  pc = "crashed" => json_written

(* C19 -- EmptyCandidateSet / EmptyQuerySet as claimed: a subfolder whose  *)
(* query set or candidate set is empty (no candidate record could be       *)
(* built) is skipped: process_subfolder never reaches its query loop, and  *)
(* never reads a query, with no candidate or no query.                     *)
C19_EmptySetsSkipped ==
  (pc = "loop" \/ qimg # <<>>) => (cand_idx # <<>> /\ nq > 0)

(* C20 -- GeometricFitUnavailable: with fewer than 8 ratio-test matches    *)
(* (none included) homography_inliers returns 0 whatever a fit would have  *)
(* given, and every shortlisted pair that passed the gates with fewer than *)
(* 8 matches is in the scores once, with its match count, inlier count 0   *)
(* and the composite score of inlier count 0.                              *)
C20_NoFitScoredWithZero ==
  pc = "verified" =>
     \A p \in DOMAIN c_subset :
        LET j == c_subset[p]
        IN  meas[j].good < 8 =>
              /\ homography_inliers(meas[j].good, meas[j].ransac) = 0
              /\ PassesGates(j) =>
                   /\ Cardinality({i \in DOMAIN scores : scores[i].cand = j}) = 1
                   /\ \E i \in DOMAIN scores :
                        /\ scores[i].cand = j
                        /\ scores[i].good = meas[j].good
                        /\ scores[i].inl = 0
                        /\ scores[i].score =
                             composite_score(meas[j].ph_d, meas[j].good, 0,
                                             meas[j].hud, meas[j].chamf,
                                             MeasuredArp(j))

(* a gated pass that scored a pair of 1..7 matches on which a fit would    *)
(* have found inliers, and a pair without any match                        *)
C20_Witness ==
  /\ pc = "verified" /\ ~second
  /\ \E i \in DOMAIN scores :
       /\ scores[i].good \in 1..7 /\ scores[i].inl = 0
       /\ meas[scores[i].cand].ransac > 0
  /\ \E i \in DOMAIN scores : scores[i].good = 0 /\ scores[i].inl = 0

(***************************************************************************)
(* Runs of main() one after the other (match.py lines 381-398) over the    *)
(* same WORK and MASTER folders, with the same settings and the same       *)
(* _EMB_CACHE directory.  A folder has at most one work image here; the    *)
(* embedder gives every candidate the same similarity.                     *)
(***************************************************************************)
(* the arguments of line 246-253 *)
ShippedArgs == [use_mirror |-> AI_USE_MIRROR, backbone |-> "resnet18",
                batch_size |-> 64, flush_every |-> 200, cache_dir |-> TRUE]

(* the master images of subfolder sub: their paths hold the folder's name *)
MasterFiles(sub, n) == [j \in 1..n |-> [path |-> 10 * sub + j, stamp |-> 0]]

(* lines 259-343 for one work image: shortlist, gated pass, second chance, *)
(* sort, cut to TOPK, rows                                                 *)
process_query(q, cands, idx, top_m, m, k) ==
  LET sims  == [o \in 1..Len(cands) |-> 1]
      keep  == deep_prefilter(sims, idx, top_m)
      sub   == IF keep # <<>> THEN keep ELSE [j \in 1..Len(cands) |-> j]
      qimg0 == load_and_clean(TRUE, CropOf(q))[1]
      first == verify_pass(qimg0, cands, sub, m)
      sc    == IF Len(first) = 0 THEN second_chance(qimg0, cands, m) ELSE first
  IN  make_rows(q, Prefix(sort_scores(sc), k))

NewRun(no) == [no |-> no, si |-> 1, rows |-> <<>>, writes |-> <<>>, status |-> "running"]

InitRuns ==
  /\ rn_pc = "main"
  /\ \E n1 \in 0..MaxRunCands, n2 \in 0..1, q1, q2 \in 0..1 :
       \E m1 \in [1..n1 -> Profiles], m2 \in [1..n2 -> Profiles] :
         rn_in = << [cands |-> MasterFiles(1, n1), nq |-> q1, meas |-> m1],
                    [cands |-> MasterFiles(2, n2), nq |-> q2, meas |-> m2] >>
  /\ rn_dir \in {{}} \cup {{f} : f \in LeftFiles(rn_in[1].cands, ShippedArgs)}
  /\ rn_run = NewRun(1)
  /\ rn_prev = <<>>

(* lines 233-238 *)
RunSkip ==
  /\ rn_pc = "main" /\ rn_run.si <= Len(SUBFOLDERS)
  /\ rn_in[rn_run.si].nq = 0 \/ rn_in[rn_run.si].cands = <<>>
  /\ rn_run' = [rn_run EXCEPT !.si = @ + 1]
  /\ UNCHANGED <<rn_pc, rn_in, rn_dir, rn_prev,
                 matchVars, scoreVars, phashVars, cacheVars, annVars, mapVars>>

(* lines 240-379: the index is built or loaded, the work image is matched *)
RunSubfolder ==
  /\ rn_pc = "main" /\ rn_run.si <= Len(SUBFOLDERS)
  /\ rn_in[rn_run.si].nq > 0 /\ rn_in[rn_run.si].cands # <<>>
  /\ \E save_ok \in BOOLEAN :
       LET in    == rn_in[rn_run.si]
           r     == build_deep_index_cached(in.cands, ShippedArgs, rn_dir, save_ok)
           cands == build_index(PathsOf(in.cands), {})
           rows0 == process_query(rn_run.si, cands, r.out, AI_TOP_M, in.meas, TOPK)
           key   == cache_key(in.cands, ShippedArgs.use_mirror,
                              KeyBackbone(ShippedArgs.backbone))
       IN  /\ r.out.status = "ok"
           /\ rn_dir' = r.dir
           /\ rn_run' = [rn_run EXCEPT
                           !.si = @ + 1,
                           !.rows = @ \o rows0,
                           !.writes = IF r.dir # rn_dir
                                      THEN Append(@, [key |-> key, hit |-> r.out.hit,
                                                      built |-> r.out.calls > 0])
                                      ELSE @]
  /\ UNCHANGED <<rn_pc, rn_in, rn_prev,
                 matchVars, scoreVars, phashVars, cacheVars, annVars, mapVars>>

(* lines 246-253 raise: nothing catches it, the run ends without its CSV   *)
(* and JSON files                                                          *)
RunRaises ==
  /\ rn_pc = "main" /\ rn_run.si <= Len(SUBFOLDERS)
  /\ rn_in[rn_run.si].nq > 0 /\ rn_in[rn_run.si].cands # <<>>
  /\ build_deep_index_cached(rn_in[rn_run.si].cands, ShippedArgs, rn_dir,
                             TRUE).out.status = "raised"
  /\ rn_prev' = Append(rn_prev, [rn_run EXCEPT !.status = "crashed", !.rows = <<>>])
  /\ rn_pc' = "ended"
  /\ UNCHANGED <<rn_in, rn_dir, rn_run,
                 matchVars, scoreVars, phashVars, cacheVars, annVars, mapVars>>

(* lines 386-398 *)
RunFinish ==
  /\ rn_pc = "main" /\ rn_run.si > Len(SUBFOLDERS)
  /\ rn_prev' = Append(rn_prev, [rn_run EXCEPT !.status = "done"])
  /\ rn_pc' = "ended"
  /\ UNCHANGED <<rn_in, rn_dir, rn_run,
                 matchVars, scoreVars, phashVars, cacheVars, annVars, mapVars>>

(* the program is started again on the same folders *)
RunAgain ==
  /\ rn_pc = "ended" /\ Len(rn_prev) < MaxRuns
  /\ rn_run' = NewRun(Len(rn_prev) + 1)
  /\ rn_pc' = "main"
  /\ UNCHANGED <<rn_in, rn_dir, rn_prev,
                 matchVars, scoreVars, phashVars, cacheVars, annVars, mapVars>>

NextRuns ==
  \/ RunSkip
  \/ RunSubfolder
  \/ RunRaises
  \/ RunFinish
  \/ RunAgain

InitOfRuns ==
  IdleMatch /\ IdleScore /\ IdlePhash /\ IdleCache /\ IdleAnn /\ InitRuns /\ IdleMaps

SpecRuns == InitOfRuns /\ [][NextRuns]_vars

(* C21 -- Determinism as claimed: a second run over the same inputs ends   *)
(* as the first did and emits the same rows (ranks, scores, accepted       *)
(* flags), also when the first run wrote the embedding cache and the       *)
(* second finds it.                                                        *)
C21_RunsAgree ==
  (Len(rn_prev) >= 2 /\ rn_prev[1].status = "done") =>
     /\ rn_prev[2].status = "done"
     /\ rn_prev[2].rows = rn_prev[1].rows

(***************************************************************************)
(* Properties of the run of main() (specification Spec): the emitted rows  *)
(***************************************************************************)
(* composite_score of the fields a row reports *)
ScoreOfRow(row) ==
  composite_score(row.phash_dist, row.orb_good, row.inliers, row.hu_dist,
                  row.chamfer, row.ar_penalty)

(* C22 -- Emitted-score consistency as claimed: in the gated pass and in   *)
(* the second-chance pass alike, the score of an emitted row (before its   *)
(* rounding) is composite_score of the pHash distance, match count, inlier *)
(* count, hu distance, chamfer distance and aspect penalty the row reports.*)
C22_ScoreFromReportedFields ==
  pc = "emitted" =>
     \A r \in DOMAIN rows :
        /\ bestk[r].score = ScoreOfRow(rows[r])
        /\ rows[r].score = round4(ScoreOfRow(rows[r]))

(* C23 -- Square canvases: every image load_and_clean returned, the query  *)
(* and every candidate record, is a square of side >= 64; hence the aspect *)
(* penalty of every (query, candidate) pair is 0 and the aspect gate never *)
(* rejects: the gated pass scores every shortlisted pair within the pHash  *)
(* bound, with ar_penalty 0.                                               *)
C23_SquareCanvas ==
  /\ \A j \in DOMAIN cand_idx :
       cand_idx[j].img.h = cand_idx[j].img.w /\ cand_idx[j].img.h >= 64
  /\ qimg # <<>> =>
       /\ qimg[1].h = qimg[1].w /\ qimg[1].h >= 64
       /\ \A j \in DOMAIN cand_idx :
            /\ aspect_ratio(cand_idx[j].img)[1] = aspect_ratio(cand_idx[j].img)[2]
            /\ MeasuredArp(j) = 0
            /\ ~(MeasuredArp(j) > 4500)
  /\ pc = "verified" =>
       /\ \A p \in DOMAIN c_subset :
            meas[c_subset[p]].ph_d <= PHASH_PREFILTER_MAX =>
               \E i \in DOMAIN scores : scores[i].cand = c_subset[p]
       /\ \A i \in DOMAIN scores : scores[i].arp = 0

(* a query cut from a 40 x 25 crop (canvas of side 64) scored against a    *)
(* candidate cut from a 70 x 70 crop (canvas of side 85)                   *)
C23_Witness ==
  /\ pc = "verified"
  /\ CropOf(qi + 1)[1] # CropOf(qi + 1)[2]
  /\ qimg[1].h = 64
  /\ \E i \in DOMAIN scores :
       /\ cand_idx[scores[i].cand].img.h > 64
       /\ scores[i].arp = 0

(***************************************************************************)
(* Properties of phash_best_rotflip (specification SpecPhash): the         *)
(* orientations tried                                                      *)
(***************************************************************************)
(* the distances of the query to the four quarter turns of an image *)
TurnDistances(q_img, c_img) ==
  {hamming(phash(q_img), phash(rot90k(c_img, r))) : r \in 0..3}

(* C24 -- Orientation count as claimed: with AI_USE_MIRROR = False only    *)
(* the four unmirrored quarter turns are tried, so mirrored is never True  *)
(* and the distance is the least of those four; with AI_USE_MIRROR = True  *)
(* it is the least of all eight; the rotation is 0, 90, 180 or 270.        *)
C24_FourTurnsWithoutMirror ==
  ph_pc = "matched" =>
     LET four  == TurnDistances(ph_q, ph_c)
         eight == four \cup TurnDistances(ph_q, flip1(ph_c))
         tried == IF AI_USE_MIRROR THEN eight ELSE four
     IN  /\ ~AI_USE_MIRROR => ph_res[3] = FALSE
         /\ ph_res[1] \in tried
         /\ \A d \in tried : ph_res[1] <= d
         /\ ph_res[2] \in {0, 90, 180, 270}

(***************************************************************************)
(* Properties of build_deep_index (specification SpecCache): a cache file  *)
(* that was not written whole                                              *)
(***************************************************************************)
(* C25 -- Partial-cache recovery as claimed: when the cache file under the *)
(* computed key is partial or corrupt, the call detects it on load,        *)
(* rebuilds the index from the current candidates and returns it.          *)
C25_PartialFileRebuilt ==
  (/\ cb_pc = "built" /\ Cur.args.cache_dir
   /\ \E f \in Cur.found : f.corrupt) =>
     /\ Cur.res.status = "ok" /\ ~Cur.res.hit
     /\ Cur.res = build_fresh(Cur.cands, DeepEmbedder(Cur.args.backbone),
                              Cur.args.use_mirror, Cur.args.batch_size,
                              Cur.args.flush_every)

(***************************************************************************)
(* Properties of deep_prefilter (specification SpecAnn): the shortlist     *)
(***************************************************************************)
(* the largest similarity of any (query orientation, row of o) pair *)
BestSim(o) ==
  LET vals == {an_sims[i][r] : i \in 1..Len(an_sims),
                               r \in {t \in 1..Len(an_owner) : an_owner[t] = o}}
  IN  CHOOSE m \in vals : \A w \in vals : w <= m

(* the owners retrieval leaves: on the faiss path those of the K best rows *)
(* of each query orientation, on the dense path every owner                *)
Survivors(path) ==
  IF path = "dense" THEN {an_owner[r] : r \in 1..Len(an_owner)}
  ELSE LET K     == Min(Max(an_top_m, FAISS_MIN_K), Len(an_owner))
           found == Array([i \in 1..Len(an_sims) |-> faiss_search(an_sims[i], K)],
                          Len(an_sims))
       IN  {an_owner[found[i][h]] : i \in 1..Len(an_sims), h \in 1..K}

Shortlist(path) == IF path = "dense" THEN an_dense ELSE an_faiss

(* C26 -- Shortlist shape: on either path deep_prefilter returns at most   *)
(* top_m candidate indices, no index twice, each an index of a candidate,  *)
(* in order of non-increasing maximum similarity over all (query           *)
(* orientation, candidate orientation) pairs, and they are the top_m best  *)
(* of the owners that survived retrieval.                                  *)
C26_ShortlistShape ==
  \A path \in an_done :
     LET sl   == Shortlist(path)
         n    == Cardinality({an_owner[r] : r \in 1..Len(an_owner)})
         surv == CHOOSE set \in {Survivors(path)} : TRUE
         in   == {sl[p] : p \in 1..Len(sl)}
     IN  /\ Len(sl) <= an_top_m
         /\ \A p, q \in 1..Len(sl) : p # q => sl[p] # sl[q]
         /\ in \subseteq 1..n
         /\ \A p \in 1..(Len(sl) - 1) : BestSim(sl[p]) >= BestSim(sl[p + 1])
         /\ in \subseteq surv
         /\ Len(sl) = Min(an_top_m, Cardinality(surv))
         /\ \A o \in surv \ in : \A p \in 1..Len(sl) : BestSim(sl[p]) >= BestSim(o)

(* both paths ran with top_m = 1 on an index of several candidates in      *)
(* which the best candidate is best by one pair only, and each returned it *)
C26_Witness ==
  /\ an_done = {"faiss", "dense"}
  /\ an_top_m = 1 /\ Len(an_owner) >= 3 * 4
  /\ an_faiss = <<2>> /\ an_dense = <<2>>
  /\ \E r \in 1..Len(an_owner) : an_owner[r] = 2 /\ an_sims[1][r] < BestSim(3)

(***************************************************************************)
(* Properties of the run of main() (specification Spec): what the query    *)
(* loop shares                                                             *)
(***************************************************************************)
InQueryLoop(at) == at \in {"loop", "prefiltered", "verified", "scored", "emitted"}

(* C27 -- Read-only sharing: whenever the query loop of a subfolder is     *)
(* entered the candidate records and the embedding index are complete (the *)
(* index has its K rows for every candidate record), and no step of the    *)
(* loop (prefilter, gated pass, second chance, ranking, output) changes    *)
(* either.                                                                 *)
C27_ReadOnlySharing ==
  [][/\ InQueryLoop(pc) => (cand_idx' = cand_idx /\ deep_idx' = deep_idx)
     /\ InQueryLoop(pc') => deep_idx' = build_deep_index(cand_idx', AI_USE_MIRROR)]_vars

(* a second query of a subfolder has its rows, made by the second-chance   *)
(* pass with a candidate taken in another pose, and the index is the one   *)
(* built before the loop                                                   *)
C27_Witness ==
  /\ pc = "emitted" /\ qi >= 1 /\ second
  /\ Len(cand_idx) >= 2
  /\ \E r \in 1..Len(rows) : rows[r].rot # 0 \/ rows[r].flip
  /\ deep_idx = build_deep_index(cand_idx, AI_USE_MIRROR)

(***************************************************************************)
(* Properties of runs of main() (specification SpecRuns): the writes of    *)
(* the embedding cache                                                     *)
(***************************************************************************)
(* the runs so far: those that ended and the one under way *)
RunsSoFar == {rn_prev[i] : i \in 1..Len(rn_prev)} \cup {rn_run}

(* C28 (as claimed) -- Cache-write discipline: a run of main writes the    *)
(* embedding-index cache at most once, only after an index build, never on *)
(* a cache hit.                                                            *)
C28_OneWritePerRun ==
  \A run \in RunsSoFar :
     /\ Len(run.writes) <= 1
     /\ \A w \in 1..Len(run.writes) : run.writes[w].built /\ ~run.writes[w].hit

(* C28 (amended) -- a run of main writes the embedding-index cache at most *)
(* once for each subfolder it has indexed, each write under its own key,   *)
(* only after an index build, never on a cache hit.                        *)
C28_OneWritePerSubfolder ==
  \A run \in RunsSoFar :
     /\ Len(run.writes) <= run.si - 1
     /\ \A v, w \in 1..Len(run.writes) :
          v # w => run.writes[v].key # run.writes[w].key
     /\ \A w \in 1..Len(run.writes) : run.writes[w].built /\ ~run.writes[w].hit

(* a run ended after writing the cache of both subfolders, and the next    *)
(* run is past its first subfolder                                         *)
C28_Witness ==
  /\ \E i \in 1..Len(rn_prev) :
        rn_prev[i].status = "done" /\ Len(rn_prev[i].writes) = 2
  /\ rn_run.status = "running" /\ rn_run.si > 1

(***************************************************************************)
(* Properties of the run of main() (specification Spec): the rows of the   *)
(* second-chance pass                                                      *)
(***************************************************************************)
(* C29 -- Every row the second-chance pass produces reports 0 good matches *)
(* and 0 inliers and has accepted = False, whatever its pHash and Hu       *)
(* distances: with both counts 0 no clause of accept_policy holds.         *)
C29_SecondChanceNeverAccepted ==
  (pc = "emitted" /\ second) =>
     \A r \in DOMAIN rows :
        /\ rows[r].orb_good = 0 /\ rows[r].inliers = 0
        /\ ~accept_policy(rows[r].phash_dist, 0, 0, rows[r].hu_dist)
        /\ ~rows[r].accepted

(* a second-chance row for a pair whose measured matches, inliers and Hu   *)
(* distance would have been accepted                                       *)
C29_Witness ==
  /\ pc = "emitted" /\ second
  /\ \E r \in DOMAIN rows :
        LET p == meas[rows[r].cand]
        IN  /\ accept_policy(p.ph_d, p.good, homography_inliers(p.good, p.ransac), p.hud)
            /\ ~rows[r].accepted

(***************************************************************************)
(* The two summary maps (match.py lines 31-42 and 345-369): specification  *)
(* SpecMaps.  A file name is the sequence of its characters.               *)
(***************************************************************************)
HexChars == {"0", "1", "2", "3", "4", "5", "6", "7", "8", "9",
             "a", "b", "c", "d", "e", "f", "A", "B", "C", "D", "E", "F"}

(* str.upper() on one character of the names used here *)
upper(c) ==
  CASE c = "a" -> "A" [] c = "b" -> "B" [] c = "c" -> "C" [] c = "d" -> "D"
    [] c = "e" -> "E" [] c = "f" -> "F" [] c = "i" -> "I" [] c = "k" -> "K"
    [] c = "n" -> "N" [] c = "o" -> "O" [] c = "r" -> "R" [] c = "s" -> "S"
    [] c = "x" -> "X" [] OTHER -> c

(* the length of the run of hex digits of s that starts at position i *)
HexRun(s, i) ==
  LET ends == {j \in i..(Len(s) + 1) :
                 /\ \A t \in i..(j - 1) : s[t] \in HexChars
                 /\ j = Len(s) + 1 \/ s[j] \notin HexChars}
  IN  (CHOOSE j \in ends : TRUE) - i

(* extract_handle_from_path (lines 37-42) on the stem of the path:         *)
(* HANDLE_ANY.search finds the leftmost "H" followed by four or more hex   *)
(* digits, HANDLE_TRAIL_HEX.search the hex digits the stem ends with, four *)
(* or more; << >> stands for None                                          *)
extract_handle_from_path(stem) ==
  LET hs    == {i \in 1..Len(stem) : stem[i] = "H" /\ HexRun(stem, i + 1) >= 4}
      i0    == CHOOSE i \in hs : \A j \in hs : i <= j
      tails == {i \in 1..Len(stem) : HexRun(stem, i) = Len(stem) + 1 - i
                                     /\ Len(stem) + 1 - i >= 4}
      t0    == CHOOSE i \in tails : \A j \in tails : i <= j
      grp   == IF hs # {} THEN SubSeq(stem, i0 + 1, i0 + HexRun(stem, i0 + 1))
               ELSE IF tails # {} THEN SubSeq(stem, t0, Len(stem))
               ELSE << >>
  IN  [t \in 1..Len(grp) |-> upper(grp[t])]

(* mutant: an entry is also replaced by a query of equal rank-1 score *)
update_map_last_wins(map, key, qp, tk) ==
  IF key \notin DOMAIN map \/ (tk # << >> /\ tk[1].score <= map[key].topk[1].score)
  THEN [k \in DOMAIN map \cup {key} |->
          IF k = key THEN [work_image |-> qp, topk |-> tk] ELSE map[k]]
  ELSE map

(* lines 361-362 and 368-369: the entry of key is set when the key is new  *)
(* or the query's rank-1 score is below that of the stored entry           *)
update_map(map, key, qp, tk) ==
  IF key \notin DOMAIN map \/ (tk # << >> /\ tk[1].score < map[key].topk[1].score)
  THEN [k \in DOMAIN map \cup {key} |->
          IF k = key THEN [work_image |-> qp, topk |-> tk] ELSE map[k]]
  ELSE map

(* the work images a subfolder can hold, in the order list_images sorts    *)
(* them (stem and suffix)                                                  *)
WorkFiles ==
  << [stem |-> <<"H", "1", "a", "2", "b">>, ext |-> ".jpg"],
     [stem |-> <<"H", "1", "a", "2", "b">>, ext |-> ".png"],
     [stem |-> <<"d", "o", "o", "r", "_", "1", "A", "2", "B">>, ext |-> ".png"],
     [stem |-> <<"s", "i", "n", "k">>, ext |-> ".png"],
     [stem |-> <<"x", "H", "1", "2">>, ext |-> ".png"] >>

(* rank-1 scores, in 1/100000 *)
RankOneScores == {-250000, 400000, 2700000}

(* topk_items() with TOPK = 1: the best pair's block, score and rotation *)
topk_items(score) == << [master_block |-> "block", score |-> score, rot |-> 0] >>

(* a run of main() has no entry and has processed no query *)
InitMaps ==
  /\ jm_pc = "maps"
  /\ jm_handle = << >>
  /\ jm_stem = << >>
  /\ jm_log = << >>

(* the queries are met subfolder by subfolder, in sorted order; a file     *)
(* that is absent or unreadable is passed over                             *)
ComesNext(sub, i) ==
  IF jm_log = << >> THEN TRUE
  ELSE LET last == jm_log[Len(jm_log)]
       IN  sub > last.sub \/ (sub = last.sub /\ i > last.i)

(* lines 358-369 for a query whose file name holds a handle *)
SummarizeWithHandle ==
  /\ jm_pc = "maps" /\ Len(jm_log) < MaxSummaries
  /\ \E sub \in 1..Len(SUBFOLDERS), i \in 1..Len(WorkFiles), score \in RankOneScores :
       LET qp == [sub |-> sub, stem |-> WorkFiles[i].stem, ext |-> WorkFiles[i].ext]
           h  == extract_handle_from_path(qp.stem)
           tk == topk_items(score)
       IN  /\ ComesNext(sub, i)
           /\ h # << >>
           /\ jm_handle' = update_map(jm_handle, h, qp, tk)
           /\ jm_stem' = update_map(jm_stem, qp.stem, qp, tk)
           /\ jm_log' = Append(jm_log, [sub |-> sub, i |-> i, qp |-> qp, h |-> h,
                                        score |-> score])
  /\ UNCHANGED <<jm_pc, matchVars, scoreVars, phashVars, cacheVars, annVars, runVars>>

(* lines 358-369 for a query without one: the warning, the stem entry *)
SummarizeNoHandle ==
  /\ jm_pc = "maps" /\ Len(jm_log) < MaxSummaries
  /\ \E sub \in 1..Len(SUBFOLDERS), i \in 1..Len(WorkFiles), score \in RankOneScores :
       LET qp == [sub |-> sub, stem |-> WorkFiles[i].stem, ext |-> WorkFiles[i].ext]
           h  == extract_handle_from_path(qp.stem)
           tk == topk_items(score)
       IN  /\ ComesNext(sub, i)
           /\ h = << >>
           /\ jm_stem' = update_map(jm_stem, qp.stem, qp, tk)
           /\ jm_log' = Append(jm_log, [sub |-> sub, i |-> i, qp |-> qp, h |-> h,
                                        score |-> score])
  /\ UNCHANGED <<jm_pc, jm_handle, matchVars, scoreVars, phashVars, cacheVars,
                 annVars, runVars>>

NextMaps ==
  \/ SummarizeWithHandle
  \/ SummarizeNoHandle

InitOfMaps ==
  IdleMatch /\ IdleScore /\ IdlePhash /\ IdleCache /\ IdleAnn /\ IdleRuns /\ InitMaps

SpecMaps == InitOfMaps /\ [][NextMaps]_vars

(* the entry the claim names for the queries qs (positions in the log):    *)
(* that of the earliest query among those of least rank-1 score            *)
BestOf(qs) ==
  LET e == CHOOSE a \in qs :
             \A b \in qs : \/ jm_log[a].score < jm_log[b].score
                           \/ (jm_log[a].score = jm_log[b].score /\ a <= b)
  IN  [work_image |-> jm_log[e].qp, topk |-> topk_items(jm_log[e].score)]

HandleKeyHas(k) == {a \in 1..Len(jm_log) : jm_log[a].h = k}
StemKeyHas(k) == {a \in 1..Len(jm_log) : jm_log[a].qp.stem = k}

(* C30 -- Summary maps keep the best entry per key: after any sequence of  *)
(* processed queries, JSON_MAP_HANDLE has a key for every handle met and   *)
(* JSON_MAP_STEM one for every stem met, and no other; each entry is that  *)
(* of the query with that key of lowest rank-1 score, the earliest one on  *)
(* equal scores; a query without a handle in its file name is under no     *)
(* handle key, and under its stem key.  The handle of H1a2b and of         *)
(* door_1A2B is 1A2B; sink and xH12 have none.                             *)
C30_MapsKeepBest ==
  jm_pc = "maps" =>
     /\ DOMAIN jm_handle = {jm_log[a].h : a \in 1..Len(jm_log)} \ {<< >>}
     /\ DOMAIN jm_stem = {jm_log[a].qp.stem : a \in 1..Len(jm_log)}
     /\ \A k \in DOMAIN jm_handle : jm_handle[k] = BestOf(HandleKeyHas(k))
     /\ \A k \in DOMAIN jm_stem : jm_stem[k] = BestOf(StemKeyHas(k))
     /\ \A a \in 1..Len(jm_log) :
          /\ jm_log[a].h = IF jm_log[a].i <= 3 THEN <<"1", "A", "2", "B">> ELSE << >>
          /\ jm_log[a].h = << >> =>
               \A k \in DOMAIN jm_handle : jm_handle[k].work_image # jm_log[a].qp

(* three queries of one handle from files of different stems: the second   *)
(* ties with the first and the entry stays, the third is lower and         *)
(* replaces it; and a query without a handle                               *)
C30_Witness ==
  /\ jm_pc = "maps" /\ Len(jm_log) = 4
  /\ jm_log[1].h # << >> /\ jm_log[2].h = jm_log[1].h /\ jm_log[3].h = jm_log[1].h
  /\ jm_log[2].qp.stem # jm_log[3].qp.stem
  /\ jm_log[2].score = jm_log[1].score /\ jm_log[3].score < jm_log[1].score
  /\ jm_log[4].h = << >>
  /\ jm_handle[jm_log[1].h].work_image = jm_log[3].qp
  /\ jm_stem[jm_log[1].qp.stem].work_image = jm_log[1].qp

====
